---- MODULE Spec2Model ----
(***************************************************************************)
(* TomatOS conversational engine: ChatSession / AIChat (bot/ai_chat.py),   *)
(* the tool registry Tools (bot/tools.py) and the quota ledger             *)
(* (bot/api.py), as state machines.                                        *)
(*                                                                         *)
(* Python values are encoded as follows.                                   *)
(*   Optional[x]   a sequence of length 0 (None / key absent) or 1         *)
(*   datetime      [sec, us]                                               *)
(*   ChatMessage   [role, content, name, tool_calls, tool_call_id, by];    *)
(*                 "by" is a history field (the turn whose code appended   *)
(*                 the message, 0 outside a turn), not a field of the code *)
(***************************************************************************)
EXTENDS Integers, Sequences, FiniteSets, TLC

VARIABLES
    sessions,     \* AIChat.sessions: session id -> ChatSession
    clock,        \* what datetime.now() returns next
    appended,     \* history: every message handed to add_message of "s1", in order
    truncated,    \* history: the last add_message ran its truncation branch
    snapshot,     \* the dict last returned by export_session
    original,     \* history: the ChatSession that snapshot was exported from
    imported,     \* history: the session id the last operation imported into
    model_config, \* AIChat.model_config, the engine's default model
    usage,        \* limit_usage.json: the counter serp/usage
    limit,        \* api.tool_config["serp"]["rpmonth"]
    exec,         \* caller -> the execute_tool call it has in flight
    calls,        \* history: the finished execute_tool calls, in order
    turn,         \* chat call -> its frame (position, kwargs, locals, result)
    max_tool_iterations,  \* AIChat.max_tool_iterations
    provider,     \* the responses the provider may give: [maxk, offsets]
    routed,       \* history: [message, session_id] per handle_chat_message call
    derived,      \* history: [bot_msg, session_id] per generate_session_id call
    commands,     \* TomatOS_Msghandler.commands, in registration order
    dispatched,   \* history: [message, invoked, result] of the find_and_execute call made
    message_handlers, \* TomatOS_Msghandler.message_handlers, in registration order
    bot_instance, \* TomatOS_bot.bot_instance is an engine (TRUE) or None (FALSE)
    handled,      \* history: [message, invoked, result] of the handle_message call made
    stream,       \* chat_stream call -> its generator frame
    registry,     \* Tools: [_tools, _tool_functions]
    registrations, \* history: the registrations made, in order
    requested_model, \* history: the model_name AIChat was constructed with
    request,      \* history: the model_params of the last provider call built
    config,       \* api.py as configured: [models, chat], the catalogue's names
                  \* and DEFAULT_MODELS["chat"]
    attempts      \* history: [op, model_name, out] per construction or completion

storeVars == <<sessions, clock, appended, truncated, snapshot, original,
               imported, model_config>>

regVars == <<usage, limit, exec, calls>>

turnVars == <<turn, max_tool_iterations, provider>>

routeVars == <<routed, derived>>

cmdVars == <<commands, dispatched, message_handlers, handled, bot_instance>>

toolRegVars == <<registry, registrations>>

promptVars == <<requested_model, request, config, attempts>>

edgeVars == <<routeVars, cmdVars, stream, toolRegVars, promptVars>>

vars == <<storeVars, regVars, turnVars, edgeVars>>

(***************************************************************************)
(* Bounds of the model.                                                    *)
(***************************************************************************)
MaxCap == 3          \* largest max_history a ChatSession is constructed with
MaxAppends == 5      \* add_message calls per behaviour of SpecTrunc
MaxClock == 9        \* datetime.now() calls per behaviour of SpecStore
MaxStoreMsgs == 2    \* messages added to one session in SpecStore
MaxLimit == 2        \* largest configured quota limit
MaxToolCalls == 4    \* execute_tool calls per behaviour of the registry specs
MaxToolIterations == 2   \* largest max_tool_iterations (the code's default is 50)
MaxCallsPerResponse == 2 \* most tool calls in one provider response
MaxCommands == 2     \* on_command registrations per behaviour of SpecCmd
MaxMsgLen == 4       \* characters of a message given to find_and_execute
MaxRouted == 2       \* inbound events and direct derivations per behaviour of SpecRoute

\* ChatSession.max_history default
DefaultMaxHistory == 100

None == << >>
Some(x) == << x >>

Min(a, b) == IF a < b THEN a ELSE b
Max(a, b) == IF a > b THEN a ELSE b

\* Python truthiness of an Optional[str] and of an Optional[list]
TruthyStr(opt) == Len(opt) = 1 /\ opt[1] # ""
TruthyList(opt) == Len(opt) = 1 /\ Len(opt[1]) > 0

\* seq[k:] with Python's meaning of a negative, zero or positive start
PySliceFrom(seq, k) ==
    LET n == Len(seq)
        start == IF k < 0 THEN Max(n + k, 0) ELSE Min(k, n)
    IN  SubSeq(seq, start + 1, n)

\* the last k elements of seq (all of it when k >= Len(seq), none when k <= 0)
LastK(seq, k) ==
    IF k <= 0 THEN << >> ELSE SubSeq(seq, Max(Len(seq) - k, 0) + 1, Len(seq))

ChatMessage(role, content, name, tool_calls, tool_call_id, by) ==
    [role |-> role, content |-> content, name |-> name,
     tool_calls |-> tool_calls, tool_call_id |-> tool_call_id, by |-> by]

PlainMessage(role, content, by) == ChatMessage(role, content, None, None, None, by)

IsSystem(m) == m.role = "system"
IsNonSystem(m) == m.role # "system"

datetime(sec, us) == [sec |-> sec, us |-> us]

NoModel == None

\* api.MODEL_CONFIGS, reduced to the fields the engine reads: one model that
\* supports tool calls (the default chat model) and one that does not
MODEL_CONFIGS ==
    [m \in {"deepseek-reasoner", "llama3.1"} |->
        [model_name |-> m, tool_usable |-> (m = "deepseek-reasoner")]]

\* AIChat._get_model_config
GetModelConfig(model_name) ==
    IF model_name \in DOMAIN MODEL_CONFIGS
    THEN Some(MODEL_CONFIGS[model_name]) ELSE None

\* AIChat._get_default_model with api.DEFAULT_MODELS["chat"]
DefaultModel == GetModelConfig("deepseek-reasoner")

ChatSession(session_id, cap, now) ==
    [session_id |-> session_id, messages |-> << >>, model_config |-> NoModel,
     max_history |-> cap, created_at |-> now, updated_at |-> now]

\* mutant: only the tail of the list is kept
TruncateTail(messages, max_history) == PySliceFrom(messages, -max_history)

\* ChatSession.add_message, lines 79-81: the truncation branch
Truncate(messages, max_history) ==
    LET system_messages == SelectSeq(messages, IsSystem)
        recent_messages ==
            PySliceFrom(messages, -max_history + Len(system_messages))
    IN  system_messages \o recent_messages

\* ChatSession.add_message
add_message(session, message, now) ==
    LET msgs == Append(session.messages, message)
    IN  [session EXCEPT
            !.messages = IF Len(msgs) > session.max_history
                         THEN Truncate(msgs, session.max_history)
                         ELSE msgs,
            !.updated_at = now]

WouldTruncate(session) == Len(session.messages) + 1 > session.max_history

\* the value of the k-th datetime.now(): time only moves forward, and both a
\* zero and a non-zero microsecond part occur
At(k) == datetime(k \div 2, k % 2)
Now == At(clock)

(***************************************************************************)
(* Tool registry (bot/tools.py) and quota ledger (bot/api.py).             *)
(* kwargs are modelled by the set of parameter names passed.               *)
(***************************************************************************)
\* Tools._tools: a parameterless tool without quota, the quota-gated
\* search tool of the ai_tool docstring, and the built-in webdownloader
TOOLS ==
    [n \in {"get_answer", "search_web", "webdownloader"} |->
        CASE n = "get_answer" ->
               [parameters |-> {}, required |-> {}, quota |-> None]
          [] n = "search_web" ->
               [parameters |-> {"query"}, required |-> {"query"},
                quota |-> Some([api |-> "serp", cost |-> 1, limit_key |-> "rpmonth"])]
          [] n = "webdownloader" ->
               [parameters |-> {"url"}, required |-> {"url"}, quota |-> None]]

\* handlers whose body makes a synchronous network call (scraper.get in
\* web_downloader): while the body runs, the event loop runs nothing else
BlockingTools == {"webdownloader"}

\* handlers that catch every exception of their body and return a text
NeverRaises == {"webdownloader"}

ToolNames == DOMAIN TOOLS \cup {"no_such_tool"}

\* what a handler body returns when it does not raise
HandlerValue(name) ==
    CASE name = "get_answer" -> "114514"
      [] name = "webdownloader" -> "page text"
      [] OTHER -> "search results"

\* mutant: the comparison refuses the call that would exactly reach the limit
check_quota_off_by_one(current_usage, lim, cost) == ~(current_usage + cost >= lim)

\* api.check_quota for a configured api and limit key
check_quota(current_usage, lim, cost) == ~(current_usage + cost > lim)

\* mutant: the increment is applied twice
usage_update_twice(current_usage, increment) == current_usage + increment + increment

\* api.usage_update
usage_update(current_usage, increment) == current_usage + increment

\* mutant: no required parameter is checked
ValidParametersNone(name, kwargs) == TRUE

\* Tools._validate_parameters: a missing required parameter raises, an
\* unknown one only warns
ValidParameters(name, kwargs) == TOOLS[name].required \subseteq kwargs

\* func(**kwargs) in the wrapper: the handlers are declared with their
\* schema's parameters and no **kwargs, so binding any other keyword raises
\* TypeError before the body runs
Accepts(name, kwargs) == kwargs \subseteq TOOLS[name].parameters

\* the keyword names a caller may pass
KwargNames == {"query"}

Returned(v) == [kind |-> "return", v |-> v]
Raised(v) == [kind |-> "raise", v |-> v]
Running == [kind |-> "run", v |-> ""]

QuotaError == "error: quota exceeded"

\* Tools.execute_tool up to the point where the handler body runs: the
\* lookup, the quota check, then the wrapper's parameter validation and
\* its call of the decorated function
PreHandler(name, kwargs) ==
    IF name \notin DOMAIN TOOLS THEN Raised("tool not registered")
    ELSE IF /\ TOOLS[name].quota # None
            /\ ~check_quota(usage, limit, TOOLS[name].quota[1].cost)
         THEN Returned(QuotaError)
    ELSE IF ~ValidParameters(name, kwargs) THEN Raised("missing required parameter")
    ELSE IF ~Accepts(name, kwargs) THEN Raised("unexpected keyword argument")
    ELSE Running

\* Tools.execute_tool, lines 157-167: the ledger after the handler returned
UsageAfterSuccess(name) ==
    IF TOOLS[name].quota # None
    THEN usage_update(usage, TOOLS[name].quota[1].cost)
    ELSE usage

Idle == [pc |-> "idle", name |-> "", kwargs |-> {}]

CallRecord(name, kwargs, invoked, out) ==
    [name |-> name, kwargs |-> kwargs, invoked |-> invoked, out |-> out]

RegQuiet ==
    /\ usage = 0
    /\ limit = 0
    /\ exec = [c \in {} |-> Idle]
    /\ calls = << >>

TurnQuiet ==
    /\ turn = [t \in {} |-> 0]
    /\ max_tool_iterations = 0
    /\ provider = [maxk |-> 0, offsets |-> {}]

NoFunction == [x \in {} |-> 0]

RouteQuiet ==
    /\ routed = << >>
    /\ derived = << >>

CmdQuiet ==
    /\ commands = << >>
    /\ dispatched = << >>
    /\ message_handlers = << >>
    /\ handled = << >>
    /\ bot_instance = FALSE

StreamQuiet == stream = NoFunction

ToolRegQuiet ==
    /\ registry = [_tools |-> NoFunction, _tool_functions |-> NoFunction,
                   _plugins_loaded |-> FALSE]
    /\ registrations = << >>

\* api.py as shipped: both chat models, DEFAULT_MODELS["chat"] among them
ShippedConfig == [models |-> {"deepseek-reasoner", "llama3.1"}, chat |-> "deepseek-reasoner"]

PromptQuiet ==
    /\ requested_model = None
    /\ request = None
    /\ config = ShippedConfig
    /\ attempts = << >>

EdgeQuiet ==
    /\ RouteQuiet
    /\ CmdQuiet
    /\ StreamQuiet
    /\ ToolRegQuiet
    /\ PromptQuiet

Callers == DOMAIN exec

InitQuota(cs) ==
    /\ sessions = [s \in {} |-> 0]
    /\ clock = 1
    /\ appended = << >>
    /\ truncated = FALSE
    /\ snapshot = None
    /\ original = None
    /\ imported = None
    /\ model_config = DefaultModel
    /\ usage = 0
    /\ limit \in 1..MaxLimit
    /\ exec = [c \in cs |-> Idle]
    /\ calls = << >>
    /\ TurnQuiet
    /\ EdgeQuiet

InFlight == Cardinality({c \in Callers : exec[c].pc # "idle"})

\* a caller awaits execute_tool(name, **kwargs); the call runs until it
\* returns, raises, or is suspended inside the handler body
ExecuteTool ==
    \E c \in Callers, name \in ToolNames, kwargs \in SUBSET KwargNames :
        /\ exec[c].pc = "idle"
        /\ Len(calls) + InFlight < MaxToolCalls
        /\ LET pre == PreHandler(name, kwargs)
           IN  IF pre.kind = "run"
               THEN /\ exec' = [exec EXCEPT ![c] =
                                   [pc |-> "handler", name |-> name, kwargs |-> kwargs]]
                    /\ UNCHANGED calls
               ELSE /\ calls' = Append(calls, CallRecord(name, kwargs, FALSE, pre))
                    /\ UNCHANGED exec
        /\ UNCHANGED <<usage, limit, storeVars, turnVars, edgeVars>>

\* the handler body returns: the ledger is updated, execute_tool returns
HandlerReturns ==
    \E c \in Callers :
        /\ exec[c].pc = "handler"
        /\ usage' = UsageAfterSuccess(exec[c].name)
        /\ calls' = Append(calls, CallRecord(exec[c].name, exec[c].kwargs, TRUE,
                                             Returned(HandlerValue(exec[c].name))))
        /\ exec' = [exec EXCEPT ![c] = Idle]
        /\ UNCHANGED <<limit, storeVars, turnVars, edgeVars>>

\* the handler body raises: execute_tool logs and re-raises, no ledger update
HandlerRaises ==
    \E c \in Callers :
        /\ exec[c].pc = "handler"
        /\ calls' = Append(calls, CallRecord(exec[c].name, exec[c].kwargs, TRUE,
                                             Raised("handler error")))
        /\ exec' = [exec EXCEPT ![c] = Idle]
        /\ UNCHANGED <<usage, limit, storeVars, turnVars, edgeVars>>

NextQuota == ExecuteTool \/ HandlerReturns \/ HandlerRaises

\* one caller: calls executed one after another
SpecQuotaSeq == InitQuota({1}) /\ [][NextQuota]_vars

\* two callers: execute_tool calls of concurrent turns
SpecQuotaConc == InitQuota({1, 2}) /\ [][NextQuota]_vars

\* the finished calls of the quota-gated tool, in order
IsGated(r) == r.name = "search_web"
Gated == SelectSeq(calls, IsGated)
Succeeded(r) == r.invoked /\ r.out.kind = "return"
Refused(r) == ~r.invoked /\ r.out = Returned(QuotaError)
SuccessesBefore(i) == Cardinality({j \in 1..(i - 1) : Succeeded(Gated[j])})
WellFormed(r) == ValidParameters(r.name, r.kwargs) /\ Accepts(r.name, r.kwargs)

\* C4 as stated: with limit K and cost 1, from usage 0, calls one after
\* another: the first K calls invoke the handler, the (K+1)-th returns a
\* failure result without invoking it, and the counter never exceeds K
\* (taken over calls that carry their required parameters).
C4_FirstKThenRefused ==
    (\A i \in 1..Len(Gated) : WellFormed(Gated[i])) =>
        /\ usage <= limit
        /\ \A i \in 1..Len(Gated) :
              /\ i <= limit => Gated[i].invoked
              /\ i = limit + 1 => Refused(Gated[i])

\* C4 amended: a call made while fewer than K calls have returned
\* successfully passes the quota check (its handler is invoked when its
\* arguments validate); a call made once K calls have returned successfully
\* is refused without invoking the handler; the counter never exceeds K.
C4_RefusedAfterKSuccesses ==
    /\ usage <= limit
    /\ \A i \in 1..Len(Gated) :
          IF SuccessesBefore(i) < limit
          THEN /\ Gated[i].out # Returned(QuotaError)
               /\ WellFormed(Gated[i]) => Gated[i].invoked
          ELSE Refused(Gated[i])

\* K calls have succeeded one after another and the (K+1)-th was refused
C4_Witness ==
    /\ Len(Gated) = limit + 1
    /\ \A i \in 1..limit : Succeeded(Gated[i])
    /\ Refused(Gated[limit + 1])
    /\ usage = limit

\* C5: for concurrent quota-gated calls against the same counter the check
\* and the increment are atomic: the counter never exceeds the limit and no
\* more handler invocations succeed against it than the limit allows.
C5_QuotaAtomic ==
    /\ usage <= limit
    /\ Cardinality({i \in 1..Len(Gated) : Succeeded(Gated[i])}) <= limit

(***************************************************************************)
(* SpecTrunc: one ChatSession constructed with any cap, add_message called *)
(* with messages of any role.  The content of the n-th message is n, so    *)
(* every message is distinguishable.                                       *)
(***************************************************************************)
InitTrunc ==
    /\ \E c \in 1..MaxCap :
          sessions = [s \in {"s1"} |-> ChatSession("s1", c, datetime(0, 0))]
    /\ clock = 1
    /\ appended = << >>
    /\ truncated = FALSE
    /\ snapshot = None
    /\ original = None
    /\ imported = None
    /\ model_config = DefaultModel
    /\ RegQuiet
    /\ TurnQuiet
    /\ EdgeQuiet

AddAnyMessage ==
    /\ Len(appended) < MaxAppends
    /\ \E role \in {"system", "user", "assistant"} :
          LET m == PlainMessage(role, clock, 0)
          IN  /\ sessions' = [sessions EXCEPT !["s1"] = add_message(@, m, Now)]
              /\ appended' = Append(appended, m)
    /\ truncated' = WouldTruncate(sessions["s1"])
    /\ clock' = clock + 1
    /\ UNCHANGED <<snapshot, original, imported, model_config, regVars, turnVars, edgeVars>>

NextTrunc == AddAnyMessage

SpecTrunc == InitTrunc /\ [][NextTrunc]_vars

\* the counts the history-cap property speaks of
CapC == sessions["s1"].max_history
SysAppended == SelectSeq(appended, IsSystem)
NonSysAppended == SelectSeq(appended, IsNonSystem)
CountS == Len(SysAppended)
CountN == Len(NonSysAppended)

\* C2: once add_message has truncated a session with cap C, S system messages
\* and N appended non-system messages (S < C), the session holds exactly
\* min(N, C-S)+S messages: every system message exactly once and the most
\* recent min(N, C-S) non-system messages, each group in its original order,
\* wherever the system messages sit in the history.
C2_HistoryCap ==
    (truncated /\ CountS < CapC) =>
        /\ Len(sessions["s1"].messages) = Min(CountN, CapC - CountS) + CountS
        /\ SelectSeq(sessions["s1"].messages, IsSystem) = SysAppended
        /\ SelectSeq(sessions["s1"].messages, IsNonSystem)
              = LastK(NonSysAppended, Min(CountN, CapC - CountS))

(***************************************************************************)
(* Session store: create / add / export / import / delete / switch_model.  *)
(***************************************************************************)
SessionIds == {"s1", "imported_session"}

\* the system prompt create_session builds when it is given none: the
\* "default" template, without a tool section (_get_available_tools is [])
BuiltDefaultPrompt == "default_template"

\* ChatMessage.to_dict: the optional keys are present only when truthy
to_dict(m) ==
    [role |-> m.role, content |-> m.content,
     name |-> IF TruthyStr(m.name) THEN m.name ELSE None,
     tool_calls |-> IF TruthyList(m.tool_calls) THEN m.tool_calls ELSE None,
     tool_call_id |-> IF TruthyStr(m.tool_call_id) THEN m.tool_call_id ELSE None]

\* import_session, lines 729-735: a ChatMessage from one exported dict
from_dict(d) ==
    ChatMessage(d.role, d.content, d.name, d.tool_calls, d.tool_call_id, 0)

\* datetime.isoformat: the microseconds are written only when non-zero
isoformat(d) == IF d.us = 0 THEN << d.sec >> ELSE << d.sec, d.us >>

\* datetime.fromisoformat
fromisoformat(str) ==
    IF Len(str) = 1 THEN datetime(str[1], 0) ELSE datetime(str[1], str[2])

MapSeq(f(_), seq) == [i \in 1..Len(seq) |-> f(seq[i])]

\* AIChat.export_session of a stored session
export_session(session) ==
    [session_id |-> session.session_id,
     model |-> IF session.model_config # None
               THEN Some(session.model_config[1].model_name) ELSE None,
     messages |-> MapSeq(to_dict, session.messages),
     created_at |-> isoformat(session.created_at),
     updated_at |-> isoformat(session.updated_at),
     message_count |-> Len(session.messages)]

\* import_session, lines 728-736: add_message of every exported message, the
\* k-th at the k-th reading of the clock after `tick`
RECURSIVE AddAll(_, _, _)
AddAll(session, dicts, tick) ==
    IF dicts = << >> THEN session
    ELSE AddAll(add_message(session, from_dict(Head(dicts)), At(tick)),
                Tail(dicts), tick + 1)

\* AIChat.import_session: the session it stores for a snapshot
import_session(data) ==
    LET fresh == ChatSession(data.session_id, DefaultMaxHistory, At(clock))
        filled == AddAll([fresh EXCEPT !.updated_at = At(clock + 1)],
                         data.messages, clock + 2)
    IN  [filled EXCEPT !.created_at = fromisoformat(data.created_at),
                       !.updated_at = fromisoformat(data.updated_at)]

\* AIChat.create_session: the session it builds, the clock first read at
\* `tick`, bound to the engine's model cfg
NewSession(session_id, system_prompt, tick, cfg) ==
    LET fresh == [ChatSession(session_id, DefaultMaxHistory, At(tick))
                     EXCEPT !.updated_at = At(tick + 1)]
        content == IF system_prompt = "" THEN BuiltDefaultPrompt ELSE system_prompt
        withsys == add_message(fresh, PlainMessage("system", content, 0),
                               At(tick + 2))
    IN  [withsys EXCEPT !.model_config = cfg]

create_session(session_id, system_prompt) ==
    NewSession(session_id, system_prompt, clock, model_config)

Put(f, k, v) == [x \in DOMAIN f \cup {k} |-> IF x = k THEN v ELSE f[x]]
Drop(f, k) == [x \in DOMAIN f \ {k} |-> f[x]]

\* messages a finished turn leaves in a session
StoreMessages ==
    { PlainMessage("user", "hi", 0),
      ChatMessage("assistant", "", None,
                  Some(<< [id |-> "call_1", type |-> "function",
                           function |-> [name |-> "get_answer",
                                         arguments |-> "{}"]] >>), None, 0),
      ChatMessage("tool", "114514", Some("get_answer"), None, Some("call_1"), 0) }

InitStore ==
    /\ sessions = [s \in {} |-> 0]
    /\ clock = 1
    /\ appended = << >>
    /\ truncated = FALSE
    /\ snapshot = None
    /\ original = None
    /\ imported = None
    /\ model_config = DefaultModel
    /\ RegQuiet
    /\ TurnQuiet
    /\ EdgeQuiet

CreateSession ==
    \E sid \in {"s1"}, prompt \in {"", "custom prompt"} :
        /\ clock + 3 <= MaxClock
        /\ sessions' = Put(sessions, sid, create_session(sid, prompt))
        /\ clock' = clock + 3
        /\ imported' = None
        /\ UNCHANGED <<appended, truncated, snapshot, original, model_config, regVars, turnVars, edgeVars>>

StoreAddMessage ==
    \E sid \in DOMAIN sessions, m \in StoreMessages :
        /\ clock + 1 <= MaxClock
        /\ Len(sessions[sid].messages) <= MaxStoreMsgs
        /\ sessions' = [sessions EXCEPT ![sid] = add_message(@, m, Now)]
        /\ clock' = clock + 1
        /\ imported' = None
        /\ UNCHANGED <<appended, truncated, snapshot, original, model_config, regVars, turnVars, edgeVars>>

ExportSession ==
    \E sid \in SessionIds :
        /\ snapshot' = IF sid \in DOMAIN sessions
                       THEN Some(export_session(sessions[sid])) ELSE None
        /\ original' = IF sid \in DOMAIN sessions THEN Some(sessions[sid]) ELSE None
        /\ imported' = None
        /\ UNCHANGED <<sessions, clock, appended, truncated, model_config, regVars, turnVars, edgeVars>>

\* import_session(data), data the last export, under its own session id or, as
\* test_session_management does, under a new one
ImportSession ==
    \E sid \in SessionIds :
        /\ snapshot # None
        /\ sid \in {snapshot[1].session_id, "imported_session"}
        /\ clock + 2 + Len(snapshot[1].messages) <= MaxClock
        /\ LET data == [snapshot[1] EXCEPT !.session_id = sid]
           IN  sessions' = Put(sessions, sid, import_session(data))
        /\ clock' = clock + 2 + Len(snapshot[1].messages)
        /\ imported' = Some(sid)
        /\ UNCHANGED <<appended, truncated, snapshot, original, model_config, regVars, turnVars, edgeVars>>

DeleteSession ==
    \E sid \in DOMAIN sessions :
        /\ sessions' = Drop(sessions, sid)
        /\ imported' = None
        /\ UNCHANGED <<clock, appended, truncated, snapshot, original, model_config, regVars, turnVars, edgeVars>>

\* switch_model(model_name, session_id) / switch_model(model_name)
SwitchModel ==
    \E name \in DOMAIN MODEL_CONFIGS \cup {"no-such-model"}, target \in SessionIds \cup {"<default>"} :
        /\ GetModelConfig(name) # None
        /\ \/ /\ target \in DOMAIN sessions
              /\ sessions' = [sessions EXCEPT ![target].model_config = GetModelConfig(name)]
              /\ UNCHANGED model_config
           \/ /\ target = "<default>"
              /\ model_config' = GetModelConfig(name)
              /\ UNCHANGED sessions
        /\ imported' = None
        /\ UNCHANGED <<clock, appended, truncated, snapshot, original, regVars, turnVars, edgeVars>>

NextStore ==
    \/ CreateSession
    \/ StoreAddMessage
    \/ ExportSession
    \/ ImportSession
    \/ DeleteSession
    \/ SwitchModel

SpecStore == InitStore /\ [][NextStore]_vars

\* the code fields of a message sequence (the history field "by" left out)
Fields(messages) == MapSeq(to_dict, messages)

\* C10: import_session(export_session(s)) stores a session with the same
\* message sequence as s (role, content, name, tool calls, tool-call id, in
\* order), the same bound model and the same created_at / updated_at.
C10_RoundTrip ==
    imported # None =>
        LET got == sessions[imported[1]]
            was == original[1]
        IN  /\ Fields(got.messages) = Fields(was.messages)
            /\ got.model_config = was.model_config
            /\ got.created_at = was.created_at
            /\ got.updated_at = was.updated_at

(***************************************************************************)
(* Orchestration engine: AIChat.chat, _chat_complete, _call_openai_api,    *)
(* _handle_tool_calls, _execute_tool.  One frame per chat call; a step is  *)
(* the code between two awaits that can suspend (the provider call, a tool *)
(* handler).                                                               *)
(***************************************************************************)
APOLOGY == "sorry, an error occurred during the chat"
LIMIT_REACHED == "maximum number of tool calls reached, please simplify"

\* the requests a provider response is made of: a tool that runs, the
\* quota-gated tool, the same without its required parameter, a name that
\* is not registered, an argument payload that is not JSON, and the
\* webdownloader
ReqKinds ==
    << [name |-> "get_answer", arguments |-> "{}"],
       [name |-> "search_web", arguments |-> "{\"query\": \"q\"}"],
       [name |-> "search_web", arguments |-> "{}"],
       [name |-> "no_such_tool", arguments |-> "{}"],
       [name |-> "get_answer", arguments |-> "{not json"],
       [name |-> "webdownloader", arguments |-> "{\"url\": \"u\"}"] >>

CallId(n, i) == "call_" \o ToString(n) \o "_" \o ToString(i)

\* _call_openai_api, lines 466-477: the tool_calls of the n-th response of a
\* turn, k requests taken from ReqKinds starting at offset o
ResponseToolCalls(n, k, o) ==
    [i \in 1..k |->
        [id |-> CallId(n, i), type |-> "function",
         function |-> ReqKinds[((o + i - 2) % Len(ReqKinds)) + 1]]]

\* json.loads of an argument payload: the kwargs, or None when it raises
json_loads(arguments) ==
    CASE arguments = "{}" -> Some({})
      [] arguments = "{\"query\": \"q\"}" -> Some({"query"})
      [] arguments = "{\"url\": \"u\"}" -> Some({"url"})
      [] OTHER -> None

Value(v) == [kind |-> "value", v |-> v]
Error(v) == [kind |-> "error", v |-> v]
ParseError == Raised("invalid json")

\* json.dumps(result, ensure_ascii=False)
JsonDumps(r) ==
    IF r.kind = "error" THEN "{\"error\": \"" \o r.v \o "\"}"
    ELSE "\"" \o r.v \o "\""

\* mutant: a raised exception is swallowed and the tool's result is empty
ResultOfSwallowed(out) ==
    IF out.kind = "raise" THEN Value("")
    ELSE IF out.v = QuotaError THEN Error(out.v) ELSE Value(out.v)

\* what the engine makes of the outcome of one tool call: execute_tool's
\* return value, or {"error": str(e)} for an exception (_execute_tool lines
\* 508-510, _handle_tool_calls lines 556-563)
ResultOf(out) ==
    IF out.kind = "raise" THEN Error(out.v)
    ELSE IF out.v = QuotaError THEN Error(out.v) ELSE Value(out.v)

\* _handle_tool_calls, lines 547-552 and 558-563
ToolResultEntry(call, res) ==
    [tool_call_id |-> call.id, role |-> "tool", name |-> call.function.name,
     content |-> JsonDumps(res)]

ToolMessage(entry, t) ==
    ChatMessage(entry.role, entry.content, Some(entry.name), None,
                Some(entry.tool_call_id), t)

\* mutant: the tool messages are appended last result first
ToolMessagesReversed(tool_results, t) ==
    [i \in 1..Len(tool_results) |->
        ToolMessage(tool_results[Len(tool_results) + 1 - i], t)]

\* _handle_tool_calls, lines 566-573: the messages appended for the results
ToolMessages(tool_results, t) ==
    [i \in 1..Len(tool_results) |-> ToolMessage(tool_results[i], t)]

\* mutant: the bound is only hit one iteration later
LimitReachedLate(iteration) == iteration > max_tool_iterations

\* _handle_tool_calls, line 577
LimitReached(iteration) == iteration >= max_tool_iterations

ApologyResult == [success |-> FALSE, response |-> APOLOGY]
LimitResult == [success |-> TRUE, response |-> LIMIT_REACHED]
\* mutant: the reply is read from a key the response does not have
TextResultEmpty(content) == [success |-> TRUE, response |-> ""]

TextResult(content) == [success |-> TRUE, response |-> content]

\* mutant: a failed provider call yields an empty response instead of None
call_failure_empty_dict == Some([content |-> "", tool_calls |-> << >>])

\* _call_openai_api, lines 489-496: every exception is logged and the
\* function falls off its end, returning None
call_failure == None

\* mutant: the exception leaves _chat_complete
chat_complete_reraises(fr) == [fr EXCEPT !.pc = "raised"]

\* _chat_complete, lines 416-424: any exception becomes the apology result
chat_complete_except(fr) ==
    [fr EXCEPT !.pc = "done", !.result = Some(ApologyResult)]

RECURSIVE AddSeq(_, _, _)
AddSeq(session, msgs, tick) ==
    IF msgs = << >> THEN session
    ELSE AddSeq(add_message(session, Head(msgs), At(tick)), Tail(msgs), tick + 1)

UserText(t) == "user message " \o ToString(t)

IdleFrame(sid) ==
    [pc |-> "idle", sid |-> sid, tool_iteration |-> 0, tool_calls |-> << >>,
     idx |-> 0, tool_results |-> << >>, result |-> None,
     provider_calls |-> 0,   \* history: provider calls made by the turn
     last |-> "none",        \* history: how the last provider call ended
     added |-> << >>,        \* history: the messages the turn appended
     executed |-> << >>]     \* history: [id, out] of the tool calls run for
                             \* the current response, in completion order

Step(fr, session, ticks) == [frame |-> fr, session |-> session, ticks |-> ticks]

\* _chat_complete up to the provider call: with tools available,
\* session.model_config.tool_usable is read, which raises for a session
\* without a model; otherwise the request is sent
SendRequest(fr, session, ticks) ==
    IF session.model_config = None
    THEN Step(chat_complete_except(fr), session, ticks)
    ELSE Step([fr EXCEPT !.pc = "api", !.provider_calls = @ + 1], session, ticks)

\* _handle_tool_calls, lines 565-600: the results are appended, then the
\* bound is checked, then the model is called again
FinishTools(fr, session, t) ==
    LET msgs == ToolMessages(fr.tool_results, t)
        sess2 == AddSeq(session, msgs, clock)
        fr2 == [fr EXCEPT !.added = @ \o msgs]
    IN  IF LimitReached(fr.tool_iteration)
        THEN Step([fr2 EXCEPT !.pc = "done", !.result = Some(LimitResult)],
                  sess2, Len(msgs))
        ELSE SendRequest([fr2 EXCEPT !.tool_iteration = @ + 1], sess2, Len(msgs))

\* _handle_tool_calls, lines 536-563: the outcome of the current tool call is
\* recorded and the loop goes on with the next call, or ends
RecordOutcome(fr, session, t, out) ==
    LET call == fr.tool_calls[fr.idx]
        fr1 == [fr EXCEPT
                  !.tool_results = Append(@, ToolResultEntry(call, ResultOf(out))),
                  !.executed = Append(@, [id |-> call.id, out |-> out])]
    IN  IF fr.idx < Len(fr.tool_calls)
        THEN Step([fr1 EXCEPT !.idx = @ + 1, !.pc = "tool"], session, 0)
        ELSE FinishTools(fr1, session, t)

Apply(t, st) ==
    /\ turn' = [turn EXCEPT ![t] = st.frame]
    /\ sessions' = Put(sessions, st.frame.sid, st.session)
    /\ clock' = clock + st.ticks

Turns == DOMAIN turn

\* turn t is inside the body of a blocking handler
Blocking(t) == exec[t].pc = "handler" /\ exec[t].name \in BlockingTools

\* the event loop can run a step of turn t: no other turn holds the thread
LoopFreeFor(t) == \A u \in Turns \ {t} : ~Blocking(u)
StoreGhosts == <<appended, truncated, snapshot, original, imported, model_config>>
EngineConfig == <<max_tool_iterations, provider, limit>>

\* AIChat.chat, lines 302-320, and _chat_complete up to the provider call
StartChat ==
    \E t \in Turns :
        /\ turn[t].pc = "idle"
        /\ LoopFreeFor(t)
        /\ LET sid == turn[t].sid
               exists == sid \in DOMAIN sessions
               base == IF exists THEN sessions[sid] ELSE create_session(sid, "")
               ticks == IF exists THEN 0 ELSE 3
               user_msg == PlainMessage("user", UserText(t), t)
               session == add_message(base, user_msg, At(clock + ticks))
           IN  Apply(t, SendRequest([turn[t] EXCEPT !.added = << user_msg >>],
                                    session, ticks + 1))
        /\ UNCHANGED <<edgeVars, StoreGhosts, EngineConfig, usage, exec, calls>>

\* _chat_complete, lines 389-424, for a response of _call_openai_api
HandleResponse(t, response, kind) ==
    LET fr == [turn[t] EXCEPT !.last = kind]
        session == sessions[fr.sid]
    IN  IF response = None
        THEN Apply(t, Step(chat_complete_except(fr), session, 0))
        ELSE IF response[1].tool_calls # << >>
        THEN LET msg == ChatMessage("assistant", response[1].content, None,
                                    Some(response[1].tool_calls), None, t)
             IN  Apply(t, Step([fr EXCEPT !.pc = "tool",
                                          !.tool_calls = response[1].tool_calls,
                                          !.idx = 1, !.tool_results = << >>,
                                          !.executed = << >>,
                                          !.added = Append(@, msg)],
                               add_message(session, msg, Now), 1))
        ELSE LET msg == PlainMessage("assistant", response[1].content, t)
             IN  Apply(t, Step([fr EXCEPT !.pc = "done",
                                          !.result = Some(TextResult(response[1].content)),
                                          !.added = Append(@, msg)],
                               add_message(session, msg, Now), 1))

\* the provider call fails: exception, timeout, rate limit, unparsable response
ProviderFails ==
    \E t \in Turns :
        /\ turn[t].pc = "api"
        /\ LoopFreeFor(t)
        /\ HandleResponse(t, call_failure, "failed")
        /\ UNCHANGED <<edgeVars, StoreGhosts, EngineConfig, usage, exec, calls>>

\* the provider answers in text (message.content may be empty)
ProviderAnswers ==
    \E t \in Turns, content \in {"final answer", ""} :
        /\ turn[t].pc = "api"
        /\ LoopFreeFor(t)
        /\ HandleResponse(t, Some([content |-> content, tool_calls |-> << >>]), "text")
        /\ UNCHANGED <<edgeVars, StoreGhosts, EngineConfig, usage, exec, calls>>

\* the provider answers with k tool-call requests
ProviderRequestsTools ==
    \E t \in Turns, k \in 1..provider.maxk, o \in provider.offsets :
        /\ turn[t].pc = "api"
        /\ LoopFreeFor(t)
        /\ HandleResponse(t, Some([content |-> "",
                                   tool_calls |-> ResponseToolCalls(
                                       turn[t].provider_calls, k, o)]), "tools")
        /\ UNCHANGED <<edgeVars, StoreGhosts, EngineConfig, usage, exec, calls>>

\* _handle_tool_calls, lines 536-546, with _execute_tool and execute_tool up
\* to the handler body: the call ends at once or is suspended in the handler
BeginToolCall ==
    \E t \in Turns :
        /\ turn[t].pc = "tool"
        /\ LoopFreeFor(t)
        /\ LET fr == turn[t]
               call == fr.tool_calls[fr.idx]
               name == call.function.name
               parsed == json_loads(call.function.arguments)
               pre == IF parsed = None THEN ParseError ELSE PreHandler(name, parsed[1])
           IN  IF pre.kind = "run"
               THEN /\ exec' = [exec EXCEPT ![t] = [pc |-> "handler", name |-> name,
                                                    kwargs |-> parsed[1]]]
                    /\ turn' = [turn EXCEPT ![t].pc = "handler"]
                    /\ UNCHANGED <<sessions, clock, calls>>
               ELSE /\ Apply(t, RecordOutcome(fr, sessions[fr.sid], t, pre))
                    /\ calls' = IF parsed = None THEN calls
                                ELSE Append(calls, CallRecord(name, parsed[1], FALSE, pre))
                    /\ UNCHANGED exec
        /\ UNCHANGED <<edgeVars, StoreGhosts, EngineConfig, usage>>

\* the handler body returns: ledger update, then the engine records the result
ToolReturns ==
    \E t \in Turns :
        /\ turn[t].pc = "handler"
        /\ LoopFreeFor(t)
        /\ LET out == Returned(HandlerValue(exec[t].name))
           IN  /\ usage' = UsageAfterSuccess(exec[t].name)
               /\ calls' = Append(calls, CallRecord(exec[t].name, exec[t].kwargs, TRUE, out))
               /\ Apply(t, RecordOutcome(turn[t], sessions[turn[t].sid], t, out))
        /\ exec' = [exec EXCEPT ![t] = Idle]
        /\ UNCHANGED <<edgeVars, StoreGhosts, EngineConfig>>

\* the handler body raises: no ledger update, the engine records the error
ToolRaises ==
    \E t \in Turns :
        /\ turn[t].pc = "handler"
        /\ LoopFreeFor(t)
        /\ exec[t].name \notin NeverRaises
        /\ LET out == Raised("handler error")
           IN  /\ calls' = Append(calls, CallRecord(exec[t].name, exec[t].kwargs, TRUE, out))
               /\ Apply(t, RecordOutcome(turn[t], sessions[turn[t].sid], t, out))
        /\ exec' = [exec EXCEPT ![t] = Idle]
        /\ UNCHANGED <<edgeVars, StoreGhosts, EngineConfig, usage>>

NextEngine ==
    \/ StartChat
    \/ ProviderFails
    \/ ProviderAnswers
    \/ ProviderRequestsTools
    \/ BeginToolCall
    \/ ToolReturns
    \/ ToolRaises

\* a session as bot_app creates it before the first chat call
PreCreated == NewSession("s1", "custom prompt", 1, DefaultModel)

\* the session chat() finds: none, one created before, or an imported one
\* (import_session leaves model_config None)
InitialStores ==
    { [s \in {} |-> 0],
      [s \in {"s1"} |-> PreCreated],
      [s \in {"s1"} |-> [PreCreated EXCEPT !.model_config = None]] }

InitEngine(ts, maxk, offsets, iterations, stores) ==
    /\ sessions \in stores
    /\ clock = 4
    /\ appended = << >>
    /\ truncated = FALSE
    /\ snapshot = None
    /\ original = None
    /\ imported = None
    /\ model_config = DefaultModel
    /\ usage = 0
    /\ limit = 1
    /\ exec = [t \in ts |-> Idle]
    /\ calls = << >>
    /\ turn = [t \in ts |-> IdleFrame("s1")]
    /\ max_tool_iterations \in iterations
    /\ provider = [maxk |-> maxk, offsets |-> offsets]
    /\ EdgeQuiet

\* where in ReqKinds a response of SpecTurn may start: between them the
\* responses of one and two calls hold every kind of request
Offsets == {1, 3, 5}

\* one chat turn, every provider response
SpecTurn ==
    /\ InitEngine({1}, MaxCallsPerResponse, Offsets,
                  0..MaxToolIterations, InitialStores)
    /\ [][NextEngine]_vars

\* two chat turns on the same session id, running concurrently
SpecConc ==
    /\ InitEngine({1, 2}, 1, {1}, {1}, InitialStores)
    /\ [][NextEngine]_vars

(***************************************************************************)
(* Properties of one chat turn (SpecTurn) and of concurrent turns          *)
(* (SpecConc)                                                              *)
(***************************************************************************)
History(t) == sessions[turn[t].sid].messages

\* the tool calls of the current response have all been handled and their
\* results appended; nothing else has happened since
ToolsFinished(fr) ==
    /\ fr.tool_calls # << >>
    /\ Len(fr.tool_results) = Len(fr.tool_calls)
    /\ \/ fr.pc = "api"
       \/ fr.pc = "done" /\ fr.result = Some(LimitResult)

FailedOut(out) == out.kind = "raise" \/ out = Returned(QuotaError)

\* C1: a turn makes at most max_tool_iterations+1 provider calls (one per
\* value 0..max_tool_iterations of the iteration counter); a turn whose
\* provider answered every request with tool calls ends after exactly that
\* many calls with the fixed limit-reached message as its reply; and from a
\* state where the counter has reached max_tool_iterations no step makes a
\* provider call.
C1_ToolLoopTerminates ==
    /\ [](\A t \in Turns :
            /\ turn[t].tool_iteration <= max_tool_iterations
            /\ turn[t].provider_calls <= turn[t].tool_iteration + 1
            /\ (turn[t].pc = "done" /\ turn[t].last = "tools")
                  => /\ turn[t].provider_calls = max_tool_iterations + 1
                     /\ turn[t].result = Some(LimitResult))
    /\ [][\A t \in Turns :
            (turn[t].pc # "idle" /\ turn[t].tool_iteration >= max_tool_iterations)
                => turn'[t].provider_calls = turn[t].provider_calls]_vars

\* C1 witness: with a bound of MaxToolIterations, a turn answered with tool
\* calls only has ended on the limit message after MaxToolIterations+1 calls
C1_Witness ==
    \E t \in Turns :
        /\ max_tool_iterations = MaxToolIterations
        /\ turn[t].pc = "done"
        /\ turn[t].last = "tools"
        /\ turn[t].provider_calls = MaxToolIterations + 1
        /\ turn[t].result = Some(LimitResult)

\* C3: in every session history the messages appended by one turn form a
\* contiguous block: no message of another turn lies between two messages
\* of the same turn.
C3_TurnsDoNotInterleave ==
    \A sid \in DOMAIN sessions :
        LET h == sessions[sid].messages
        IN  \A i, j, k \in 1..Len(h) :
                (i < j /\ j < k /\ h[i].by # 0 /\ h[i].by = h[k].by)
                    => h[j].by = h[i].by

\* C6: a step in which the pending provider call fails ends the turn with
\* the apology reply and leaves every session history as it was just before
\* the call: the turn appends nothing, and its user message is still there.
C6_ProviderFailureKeepsHistory ==
    [][\A t \in Turns :
         (turn[t].pc = "api" /\ turn'[t] # turn[t] /\ turn'[t].last = "failed")
            => /\ turn'[t].pc = "done"
               /\ turn'[t].result = Some(ApologyResult)
               /\ sessions' = sessions
               /\ turn'[t].added = turn[t].added
               /\ \E i \in 1..Len(sessions'[turn[t].sid].messages) :
                     sessions'[turn[t].sid].messages[i] = Head(turn[t].added)]_vars

\* C6 witness: a provider call made after a round of tool calls has failed
C6_Witness ==
    \E t \in Turns :
        /\ turn[t].pc = "done"
        /\ turn[t].last = "failed"
        /\ turn[t].provider_calls >= 2
        /\ turn[t].result = Some(ApologyResult)
        /\ History(t)[Len(History(t))].role = "tool"

\* C7: while the k tool calls of a response are being handled they are run
\* one at a time in the order of the response and the history ends with the
\* assistant message carrying the k requests; once they are handled the
\* history ends with that assistant message followed by exactly k tool
\* messages, the i-th holding the result of the i-th request and tagged with
\* its id.
C7_ToolMessagesInOrder ==
    \A t \in Turns :
        LET fr == turn[t]
            k == Len(fr.tool_calls)
            h == History(t)
            n == Len(h)
            assistant_msg == ChatMessage("assistant", "", None,
                                         Some(fr.tool_calls), None, t)
        IN  /\ fr.pc \in {"tool", "handler"}
                => /\ Len(fr.executed) = fr.idx - 1
                   /\ \A i \in 1..Len(fr.executed) :
                         fr.executed[i].id = fr.tool_calls[i].id
                   /\ fr.pc = "handler"
                         => exec[t].name = fr.tool_calls[fr.idx].function.name
                   /\ h[n] = assistant_msg
            /\ ToolsFinished(fr)
                => /\ n >= k + 1
                   /\ h[n - k] = assistant_msg
                   /\ Len(fr.executed) = k
                   /\ \A i \in 1..k :
                         /\ fr.executed[i].id = fr.tool_calls[i].id
                         /\ h[n - k + i] =
                              ChatMessage("tool",
                                          JsonDumps(ResultOf(fr.executed[i].out)),
                                          Some(fr.tool_calls[i].function.name),
                                          None, Some(fr.tool_calls[i].id), t)
                   /\ LastK(fr.added, k + 1) = LastK(h, k + 1)

\* C7 witness: a response with two requests has been handled
C7_Witness ==
    \E t \in Turns :
        /\ ToolsFinished(turn[t])
        /\ Len(turn[t].tool_calls) = 2
        /\ turn[t].executed[1].out # turn[t].executed[2].out

\* C8: every failed tool call (handler raised, name not registered, quota
\* exceeded, missing parameter, unparsable arguments) leaves a result and
\* the loop goes on with the next call; once the calls of the response are
\* handled the failure is in the history as a tool message holding the
\* error, tagged with the call's id; and the turn then calls the model
\* again, the only other end being the iteration limit.
C8_FailingToolDoesNotAbort ==
    \A t \in Turns :
        LET fr == turn[t]
            k == Len(fr.tool_calls)
            h == History(t)
            n == Len(h)
        IN  /\ fr.pc # "raised"
            /\ fr.pc \in {"tool", "handler"} => Len(fr.executed) = fr.idx - 1
            /\ ToolsFinished(fr)
                => /\ Len(fr.executed) = k
                   /\ \A i \in 1..k :
                         FailedOut(fr.executed[i].out)
                            => h[n - k + i] =
                                 ChatMessage("tool",
                                             JsonDumps(Error(fr.executed[i].out.v)),
                                             Some(fr.tool_calls[i].function.name),
                                             None, Some(fr.tool_calls[i].id), t)
                   /\ fr.pc = "done" => fr.tool_iteration >= max_tool_iterations
            /\ (fr.pc = "done" /\ fr.last = "tools")
                => /\ fr.result = Some(LimitResult)
                   /\ fr.tool_iteration >= max_tool_iterations
                   /\ ToolsFinished(fr)

\* C8 witness: the first call of a response failed, the second one ran, and
\* the model is being called again
C8_Witness ==
    \E t \in Turns :
        /\ ToolsFinished(turn[t])
        /\ turn[t].pc = "api"
        /\ Len(turn[t].tool_calls) = 2
        /\ FailedOut(turn[t].executed[1].out)
        /\ ~FailedOut(turn[t].executed[2].out)

\* C9: no exception leaves chat, and a chat call that has ended has
\* returned a result whose reply is a string.
C9_ChatAlwaysReplies ==
    \A t \in Turns :
        /\ turn[t].pc \in {"idle", "api", "tool", "handler", "done"}
        /\ turn[t].pc = "done"
              => /\ turn[t].result # None
                 /\ turn[t].result[1].response \in
                       {APOLOGY, LIMIT_REACHED, "final answer", ""}

\* C9 witness: a tool handler raised, then the provider call failed, and the
\* call still returned the apology
C9_Witness ==
    \E t \in Turns :
        /\ turn[t].pc = "done"
        /\ turn[t].last = "failed"
        /\ turn[t].result = Some(ApologyResult)
        /\ \E i \in 1..Len(turn[t].executed) :
              turn[t].executed[i].out = Raised("handler error")

(***************************************************************************)
(* Router: session-id derivation (bot_app.py).  A dict is a function from  *)
(* its keys; a Messagebase is handled through its __dict__.                *)
(***************************************************************************)
\* dict.get(key, default)
Get(d, key, default) == IF key \in DOMAIN d THEN d[key] ELSE default

\* str() of a user id
Str(x) == ToString(x)

Adapters == {"TomatOS_WebTerminal", "TomatOS_Console"}
UserIds == {10001, 10002}
ConversationIds == {"c1", "c2"}

\* the fields of a Messagebase the router reads; a Messagebase has no
\* platform and no group_id attribute
Messagebase(adapter, text, userid, conversation_id, is_group) ==
    [adapter |-> adapter, text |-> text, userid |-> userid,
     conversation_id |-> conversation_id, is_group |-> is_group]

\* the inbound events the adapters build
Inbound ==
    { Messagebase(a, "hello", u, c, g) :
        a \in Adapters, u \in UserIds, c \in ConversationIds, g \in BOOLEAN }

\* mutant: the group id and the user id change places
generate_session_id_swapped(bot_msg) ==
    LET user_id == Get(bot_msg, "user_id", "unknown")
        conv_id == Get(bot_msg, "conv_id", "default")
        is_group == Get(bot_msg, "is_group", FALSE)
        group_id == Get(bot_msg, "group_id", conv_id)
        platform == Get(bot_msg, "platform", "unknown")
    IN  IF is_group
        THEN platform \o "/group/" \o user_id \o "/" \o group_id
        ELSE platform \o "/private/" \o user_id \o "/" \o conv_id

\* TomatOS_bot.generate_session_id
generate_session_id(bot_msg) ==
    LET user_id == Get(bot_msg, "user_id", "unknown")
        conv_id == Get(bot_msg, "conv_id", "default")
        is_group == Get(bot_msg, "is_group", FALSE)
        group_id == Get(bot_msg, "group_id", conv_id)
        platform == Get(bot_msg, "platform", "unknown")
    IN  IF is_group
        THEN platform \o "/group/" \o group_id \o "/" \o user_id
        ELSE platform \o "/private/" \o user_id \o "/" \o conv_id

\* handle_chat_message, lines 206-220: the bot_msg built from the message
BotMsg(msg_dict) ==
    [text |-> Get(msg_dict, "text", ""),
     user_id |-> Str(Get(msg_dict, "userid", "unknown")),
     conv_id |-> Get(msg_dict, "conversation_id", "default"),
     is_group |-> Get(msg_dict, "is_group", FALSE),
     group_id |-> Get(msg_dict, "group_id",
                      Get(msg_dict, "conversation_id", "default")),
     platform |-> Get(msg_dict, "platform", "unknown")]

\* the bot_msg dicts generate_session_id is called with directly
BotMsgs ==
    [platform : {"qq", "web"}, is_group : BOOLEAN, user_id : {"10001", "10002"},
     conv_id : ConversationIds, group_id : {"g1", "c1"}]

Handled == Len(derived)

InitRoute ==
    /\ sessions = NoFunction
    /\ clock = 1
    /\ appended = << >>
    /\ truncated = FALSE
    /\ snapshot = None
    /\ original = None
    /\ imported = None
    /\ model_config = DefaultModel
    /\ RegQuiet
    /\ TurnQuiet
    /\ EdgeQuiet

\* TomatOS_bot.handle_chat_message with a running bot, up to the provider
\* call of chat: the id is derived, the session fetched or created with the
\* default template, and the user message appended
HandleChatMessage ==
    \E message \in Inbound :
        /\ Handled < MaxRouted
        /\ LET bot_msg == BotMsg(message)
               session_id == generate_session_id(bot_msg)
               exists == session_id \in DOMAIN sessions
               base == IF exists THEN sessions[session_id]
                       ELSE create_session(session_id, "custom prompt")
               ticks == IF exists THEN 0 ELSE 3
               user_msg == PlainMessage("user", bot_msg.text, Len(routed) + 1)
           IN  /\ routed' = Append(routed, [message |-> message,
                                            session_id |-> session_id])
               /\ derived' = Append(derived, [bot_msg |-> bot_msg,
                                              session_id |-> session_id])
               /\ sessions' = Put(sessions, session_id,
                                  add_message(base, user_msg, At(clock + ticks)))
               /\ clock' = clock + ticks + 1
        /\ UNCHANGED <<appended, truncated, snapshot, original, imported,
                       model_config, regVars, turnVars, cmdVars, stream,
                       toolRegVars, promptVars>>

\* a direct call of generate_session_id
GenerateSessionId ==
    \E bot_msg \in BotMsgs :
        /\ Handled < MaxRouted
        /\ derived' = Append(derived, [bot_msg |-> bot_msg,
                                       session_id |-> generate_session_id(bot_msg)])
        /\ UNCHANGED <<storeVars, regVars, turnVars, routed, cmdVars, stream,
                       toolRegVars, promptVars>>

NextRoute ==
    \/ HandleChatMessage
    \/ GenerateSessionId

SpecRoute == InitRoute /\ [][NextRoute]_vars

\* the platform, the group and the user of an inbound event
PlatformOf(message) == message.adapter
GroupOf(message) == IF message.is_group THEN Some(message.conversation_id) ELSE None
UserOf(message) == message.userid

\* C11: two routed events that differ in platform, in group or in user have
\* different session ids.
C11_DistinctSessions ==
    \A i, j \in 1..Len(routed) :
        (\/ PlatformOf(routed[i].message) # PlatformOf(routed[j].message)
         \/ GroupOf(routed[i].message) # GroupOf(routed[j].message)
         \/ UserOf(routed[i].message) # UserOf(routed[j].message))
            => routed[i].session_id # routed[j].session_id

\* C12: every derived id is platform/private/user_id/conv_id for a private
\* message and platform/group/group_id/user_id for a group message, and two
\* derivations from equal inputs give equal ids.
C12_SessionIdFormat ==
    /\ \A i \in 1..Len(derived) :
          LET b == derived[i].bot_msg
          IN  derived[i].session_id =
                 IF b.is_group
                 THEN b.platform \o "/group/" \o b.group_id \o "/" \o b.user_id
                 ELSE b.platform \o "/private/" \o b.user_id \o "/" \o b.conv_id
    /\ \A i, j \in 1..Len(derived) :
          derived[i].bot_msg = derived[j].bot_msg
             => derived[i].session_id = derived[j].session_id

\* C12 witness: a private and a group derivation from otherwise equal fields
C12_Witness ==
    \E i, j \in 1..Len(derived) :
        /\ derived[i].bot_msg.is_group
        /\ ~derived[j].bot_msg.is_group
        /\ derived[i].bot_msg.group_id # derived[i].bot_msg.user_id
        /\ derived[i].bot_msg.platform = "qq"
        /\ derived[i].session_id # derived[j].session_id

(***************************************************************************)
(* Router: command matching (message.py).  A message and a name or alias   *)
(* are sequences of characters.                                            *)
(***************************************************************************)
cmd_prefix == {"/", "!", "y"}
Whitespace == {" "}
Alphabet == {"/", "y", "h", "i", " "}

Messages == UNION {[1..n -> Alphabet] : n \in 0..MaxMsgLen}

\* the commands a module may register: two share the alias "hi", one has
\* an alias that is no valid regular expression, one is named "h"
CommandDefs ==
    { [name |-> <<"h", "i">>, alias |-> << <<"i">> >>],
      [name |-> <<"i", "h">>, alias |-> << <<"(">>, <<"h", "i">> >>],
      [name |-> <<"h">>, alias |-> << >>] }

\* re.compile raises re.error for the fragment
InvalidRegex(alias_str) == \E i \in 1..Len(alias_str) : alias_str[i] = "("

StartsWith(seq, p) == Len(p) <= Len(seq) /\ SubSeq(seq, 1, Len(p)) = p

\* mutant: the pattern lacks the trailing (?:\s|$)
full_pattern_no_boundary(alias_str, message) ==
    /\ message # << >>
    /\ message[1] \in cmd_prefix
    /\ StartsWith(Tail(message), alias_str)

\* re.match(f"^{prefix_regex}{alias_str}(?:\\s|$)", message) for a literal
\* alias_str
full_pattern(alias_str, message) ==
    /\ message # << >>
    /\ message[1] \in cmd_prefix
    /\ StartsWith(Tail(message), alias_str)
    /\ \/ Len(message) = 1 + Len(alias_str)
       \/ message[2 + Len(alias_str)] \in Whitespace

\* find_and_execute, lines 125-148: the command matches through its name or
\* one of its aliases; an invalid alias is skipped
CommandMatches(command, message) ==
    LET potential_matches == << command.name >> \o command.alias
    IN  \E k \in 1..Len(potential_matches) :
            /\ ~InvalidRegex(potential_matches[k])
            /\ full_pattern(potential_matches[k], message)

MatchingCommands(message) ==
    {c \in 1..Len(commands) : CommandMatches(commands[c], message)}

\* mutant: the last registered matching command is taken
LastMatch(message) ==
    CHOOSE c \in MatchingCommands(message) :
        \A d \in MatchingCommands(message) : d <= c

\* find_and_execute, lines 122-145: the loop returns at the first match
FirstMatch(message) ==
    CHOOSE c \in MatchingCommands(message) :
        \A d \in MatchingCommands(message) : c <= d

HandlerResult(function) == "result of handler " \o ToString(function)

\* what the handler of a command returns: the handler of the command named
\* "h" has no return statement
Returns(command) ==
    IF command.name = <<"h">> THEN None ELSE Some(HandlerResult(command.function))

InitCmd ==
    /\ sessions = NoFunction
    /\ clock = 1
    /\ appended = << >>
    /\ truncated = FALSE
    /\ snapshot = None
    /\ original = None
    /\ imported = None
    /\ model_config = DefaultModel
    /\ RegQuiet
    /\ TurnQuiet
    /\ EdgeQuiet

\* TomatOS_Msghandler.on_command: the command is appended to the list
OnCommand ==
    \E def \in CommandDefs :
        /\ Len(commands) < MaxCommands
        /\ dispatched = None
        /\ commands' = Append(commands,
                              [name |-> def.name, alias |-> def.alias,
                               function |-> Len(commands) + 1])
        /\ UNCHANGED <<storeVars, regVars, turnVars, routeVars, dispatched,
                       message_handlers, handled, bot_instance, stream,
                       toolRegVars, promptVars>>

\* TomatOS_Msghandler.find_and_execute(message)
FindAndExecute ==
    \E message \in Messages :
        /\ dispatched = None
        /\ dispatched' =
              IF MatchingCommands(message) = {}
              THEN Some([message |-> message, invoked |-> << >>, passed |-> None,
                         result |-> None])
              ELSE LET function == commands[FirstMatch(message)].function
                   IN  Some([message |-> message, invoked |-> << function >>,
                             passed |-> Some(message),
                             result |-> Returns(commands[FirstMatch(message)])])
        /\ UNCHANGED <<storeVars, regVars, turnVars, routeVars, commands,
                       message_handlers, handled, bot_instance, stream,
                       toolRegVars, promptVars>>

NextCmd ==
    \/ OnCommand
    \/ FindAndExecute

SpecCmd == InitCmd /\ [][NextCmd]_vars

\* the message is one prefix character, then word, then nothing or whitespace
IsCommandText(message, word) ==
    /\ Len(message) >= 1 + Len(word)
    /\ LET rest == SubSeq(message, 2 + Len(word), Len(message))
       IN  /\ \E p \in cmd_prefix : message = << p >> \o word \o rest
           /\ rest = << >> \/ Head(rest) \in Whitespace

\* the words a command answers to: its name and its aliases that compile
WordsOf(command) ==
    {w \in {command.name} \cup {command.alias[k] : k \in 1..Len(command.alias)} :
        ~InvalidRegex(w)}

Answers(c, message) == \E w \in WordsOf(commands[c]) : IsCommandText(message, w)

\* C13: find_and_execute invokes a command only for a message that is one
\* prefix character, then the command's name or one of its aliases, then
\* whitespace or the end; it invokes one whenever some command answers to
\* the message; "/hi" and "/hi i" reach the command named hi, "/hii" does
\* not.
C13_CommandMatch ==
    dispatched # None =>
        LET d == dispatched[1]
        IN  /\ \A k \in 1..Len(d.invoked) : Answers(d.invoked[k], d.message)
            /\ (d.invoked # << >>) <=>
                  (\E c \in 1..Len(commands) : Answers(c, d.message))
            /\ (d.message = <<"/", "h", "i", "i">> /\ d.invoked # << >>)
                  => commands[d.invoked[1]].name # <<"h", "i">>
                     /\ commands[d.invoked[1]].name # <<"h">>

\* C13 witness: "/hi i" was matched to the command named hi
C13_Witness ==
    /\ dispatched # None
    /\ dispatched[1].message = <<"/", "h", "i", " ">>
    /\ dispatched[1].invoked # << >>
    /\ commands[dispatched[1].invoked[1]].name = <<"h", "i">>

\* C14: when several registered commands answer to a message, exactly one
\* handler is invoked, once, that of the earliest registered of them, and
\* its result is the result of find_and_execute.
C14_FirstCommandWins ==
    dispatched # None =>
        LET d == dispatched[1]
            answering == {c \in 1..Len(commands) : Answers(c, d.message)}
        IN  answering # {} =>
               /\ Len(d.invoked) = 1
               /\ d.invoked[1] \in answering
               /\ \A c \in answering : d.invoked[1] <= c
               /\ d.result = Returns(commands[d.invoked[1]])

\* C14 witness: two different commands answered to the message and the one
\* registered first was invoked
C14_Witness ==
    /\ dispatched # None
    /\ \E c, e \in 1..Len(commands) :
          /\ c < e
          /\ commands[c].name # commands[e].name
          /\ Answers(c, dispatched[1].message)
          /\ Answers(e, dispatched[1].message)
          /\ dispatched[1].invoked = << c >>

(***************************************************************************)
(* The get_answer scenario (SpecTurn)                                      *)
(***************************************************************************)
\* the provider first requested get_answer alone, the tool returned, and the
\* provider then answered in text
GetAnswerScenario(fr) ==
    /\ fr.pc = "done"
    /\ fr.last = "text"
    /\ fr.tool_iteration = 1
    /\ Len(fr.tool_calls) = 1
    /\ fr.tool_calls[1].function = [name |-> "get_answer", arguments |-> "{}"]
    /\ fr.executed[1].out = Returned("114514")

\* C15: in the get_answer scenario the turn made exactly two provider
\* calls, appended in order the user message, the assistant message
\* carrying the tool call, a tool message holding "114514" tagged with the
\* call's id, and the final assistant message, these being the end of the
\* history, and returned the final text as its reply.
C15_GetAnswerScenario ==
    \A t \in Turns :
        GetAnswerScenario(turn[t]) =>
            LET fr == turn[t]
                a == fr.added
            IN  /\ fr.provider_calls = 2
                /\ Len(a) = 4
                /\ a[1] = PlainMessage("user", UserText(t), t)
                /\ a[2] = ChatMessage("assistant", "", None, Some(fr.tool_calls),
                                      None, t)
                /\ a[3] = ChatMessage("tool", "\"114514\"", Some("get_answer"),
                                      None, Some(fr.tool_calls[1].id), t)
                /\ a[4].role = "assistant"
                /\ a[4].tool_calls = None
                /\ fr.result = Some([success |-> TRUE, response |-> a[4].content])
                /\ LastK(History(t), 4) = a

\* C15 witness: the scenario has run on a session created by the chat call
\* and the reply is the model's final text
C15_Witness ==
    \E t \in Turns :
        /\ GetAnswerScenario(turn[t])
        /\ turn[t].result = Some([success |-> TRUE, response |-> "final answer"])
        /\ Len(History(t)) = 5

(***************************************************************************)
(* Frame of the quota counter (SpecQuotaConc)                              *)
(***************************************************************************)
CostOf(name) == TOOLS[name].quota[1].cost

GatedSuccess(r) ==
    /\ r.invoked
    /\ r.out.kind = "return"
    /\ r.name \in DOMAIN TOOLS
    /\ TOOLS[r.name].quota # None

\* C16: a step changes the quota counter only if it is the successful
\* return of a quota-gated handler, and then by exactly the tool's cost; a
\* call that ends refused for quota, failing validation, with a raising
\* handler or with an unregistered name leaves the counter as it was.
C16_QuotaFrame ==
    [][/\ usage' # usage
          => /\ Len(calls') = Len(calls) + 1
             /\ GatedSuccess(calls'[Len(calls')])
             /\ usage' = usage + CostOf(calls'[Len(calls')].name)
       /\ (Len(calls') = Len(calls) + 1 /\ GatedSuccess(calls'[Len(calls')]))
          => usage' = usage + CostOf(calls'[Len(calls')].name)
       /\ (Len(calls') = Len(calls) + 1 /\ ~GatedSuccess(calls'[Len(calls')]))
          => usage' = usage]_vars

\* C16 witness: one gated call succeeded, and calls ended refused for
\* quota, with a raising handler and failing validation
C16_Witness ==
    /\ usage = 1
    /\ \E i \in 1..Len(calls) : GatedSuccess(calls[i])
    /\ \E i \in 1..Len(calls) : Refused(calls[i])
    /\ \E i \in 1..Len(calls) : calls[i].out = Raised("handler error")
    /\ \E i \in 1..Len(calls) : calls[i].out = Raised("missing required parameter")

(***************************************************************************)
(* Streaming turns (AIChat.chat_stream, AIChat._chat_stream).              *)
(* A stream call is the async generator chat_stream returns, together with *)
(* its consumer: the consumer asks for the next chunk or closes the        *)
(* generator.                                                              *)
(***************************************************************************)
MaxStreams == 2

StreamCalls == 1..MaxStreams

StreamSessionIds == {"s1", "s2"}

\* response_text of _chat_stream: fifteen characters (ASCII stand-in)
response_text ==
    <<"s", "t", "r", "e", "a", "m", " ", "i", "n", " ", "d", "e", "v", ".", ".">>

IdleStream == [pc |-> "idle", session_id |-> "", chunks |-> << >>]

AssistantMsg(c) == PlainMessage("assistant", response_text, c)

InitStream ==
    /\ sessions \in InitialStores
    /\ clock = 4
    /\ appended = << >>
    /\ truncated = FALSE
    /\ snapshot = None
    /\ original = None
    /\ imported = None
    /\ model_config = DefaultModel
    /\ RegQuiet
    /\ TurnQuiet
    /\ RouteQuiet
    /\ CmdQuiet
    /\ stream = [c \in StreamCalls |-> IdleStream]
    /\ ToolRegQuiet
    /\ PromptQuiet

StreamFrame == <<appended, truncated, snapshot, original, imported,
                 model_config, regVars, turnVars, routeVars, cmdVars,
                 toolRegVars, promptVars>>

\* the first __anext__ of chat_stream: the session is fetched or created,
\* the user message appended, and _chat_stream runs to its first
\* asyncio.sleep; reading session.model_config.model_name of a session
\* without model raises inside the try, which logs and ends the generator
ChatStream(c) ==
    \E session_id \in StreamSessionIds :
        /\ stream[c].pc = "idle"
        /\ LET exists == session_id \in DOMAIN sessions
               base == IF exists THEN sessions[session_id]
                       ELSE create_session(session_id, "")
               ticks == IF exists THEN 0 ELSE 3
               user_msg == PlainMessage("user", "hello", c)
           IN  /\ sessions' = Put(sessions, session_id,
                                  add_message(base, user_msg, At(clock + ticks)))
               /\ clock' = clock + ticks + 1
               /\ stream' = [stream EXCEPT ![c] =
                     [pc |-> IF base.model_config = None THEN "failed" ELSE "sleep",
                      session_id |-> session_id, chunks |-> << >>]]
        /\ UNCHANGED StreamFrame

\* asyncio.sleep returns and the next character is yielded
StreamYield(c) ==
    /\ stream[c].pc = "sleep"
    /\ stream' = [stream EXCEPT ![c].pc = "yield",
                                ![c].chunks = Append(@, response_text[Len(@) + 1])]
    /\ UNCHANGED <<storeVars, StreamFrame>>

\* the consumer asks for the next chunk: the loop goes to its next sleep,
\* or it has ended, the assistant message is appended and the generator
\* is exhausted
StreamNext(c) ==
    /\ stream[c].pc = "yield"
    /\ IF Len(stream[c].chunks) < Len(response_text)
       THEN /\ stream' = [stream EXCEPT ![c].pc = "sleep"]
            /\ UNCHANGED storeVars
       ELSE LET session_id == stream[c].session_id
            IN  /\ sessions' = Put(sessions, session_id,
                                   add_message(sessions[session_id],
                                               AssistantMsg(c), Now))
                /\ clock' = clock + 1
                /\ stream' = [stream EXCEPT ![c].pc = "done"]
                /\ UNCHANGED <<appended, truncated, snapshot, original,
                               imported, model_config>>
    /\ UNCHANGED <<regVars, turnVars, routeVars, cmdVars, toolRegVars, promptVars>>

\* the consumer stops reading: the generator is closed at its yield
\* (GeneratorExit) or its task is cancelled at the sleep (CancelledError);
\* neither is an Exception, so nothing after the loop runs
StreamClose(c) ==
    /\ stream[c].pc \in {"sleep", "yield"}
    /\ stream' = [stream EXCEPT ![c].pc = "closed"]
    /\ UNCHANGED <<storeVars, StreamFrame>>

NextStream ==
    \E c \in StreamCalls :
        \/ ChatStream(c)
        \/ StreamYield(c)
        \/ StreamNext(c)
        \/ StreamClose(c)

SpecStream == InitStream /\ [][NextStream]_vars

\* the assistant messages stream call c has appended to its session
AssistantAppends(c) ==
    LET messages == sessions[stream[c].session_id].messages
    IN  Cardinality({ i \in 1..Len(messages) : messages[i] = AssistantMsg(c) })

StreamEnded(c) == stream[c].pc \in {"done", "closed", "failed"}

\* C17: a streaming turn appends the assistant message to its session
\* exactly once: never more than once, and once when the stream has ended,
\* also when the consumer stopped reading before the end.
C17_StreamFinalizesOnce ==
    \A c \in StreamCalls :
        stream[c].pc # "idle"
        => /\ AssistantAppends(c) <= 1
           /\ StreamEnded(c) => AssistantAppends(c) = 1

(***************************************************************************)
(* Termination of a turn.  The OpenAI client is built with timeout=60      *)
(* (AIChat.__init__), so a provider call ends: it answers or it fails.     *)
(* Tools.execute_tool awaits the handler with nothing around it, so        *)
(* nothing makes a running handler end.                                    *)
(***************************************************************************)
ProviderEnds ==
    \/ ProviderFails
    \/ ProviderAnswers
    \/ ProviderRequestsTools

HandlerEnds ==
    \/ ToolReturns
    \/ ToolRaises

\* one chat turn: the event loop runs every ready step and the provider
\* call is bounded by the client's timeout
SpecTurnFair ==
    /\ SpecTurn
    /\ WF_vars(StartChat)
    /\ WF_vars(ProviderEnds)
    /\ WF_vars(BeginToolCall)

\* one chat turn in which, besides, every tool handler ends
SpecTurnHandlersEnd ==
    /\ SpecTurnFair
    /\ WF_vars(HandlerEnds)

TurnRunning == \E t \in Turns : turn[t].pc \notin {"idle", "done"}

TurnOver == \A t \in Turns : turn[t].pc = "done"

\* C18: every turn that has started eventually ends, also when a tool
\* handler never returns.
C18_TurnTerminates == TurnRunning ~> TurnOver

(***************************************************************************)
(* Turns of two sessions on one event loop.  Turn 1 talks in "s1", turn 2  *)
(* in "s2"; a provider response requests get_answer or the webdownloader.  *)
(***************************************************************************)
LoopSessions == <<"s1", "s2">>

InitLoop ==
    /\ sessions = NoFunction
    /\ clock = 4
    /\ appended = << >>
    /\ truncated = FALSE
    /\ snapshot = None
    /\ original = None
    /\ imported = None
    /\ model_config = DefaultModel
    /\ usage = 0
    /\ limit = 1
    /\ exec = [t \in {1, 2} |-> Idle]
    /\ calls = << >>
    /\ turn = [t \in {1, 2} |-> IdleFrame(LoopSessions[t])]
    /\ max_tool_iterations = 1
    /\ provider = [maxk |-> 1, offsets |-> {1, Len(ReqKinds)}]
    /\ EdgeQuiet

\* a step of turn t
StepOf(t) == NextEngine /\ turn'[t] # turn[t]

\* the loop runs every step turn 2 is ready for, and the provider calls and
\* handlers of turn 2 end; nothing is assumed of turn 1
SpecLoop ==
    /\ InitLoop
    /\ [][NextEngine]_vars
    /\ WF_vars(StepOf(2))

\* C19: whatever the turn of session "s1" is waiting on or executing, the
\* turn of session "s2" appends its messages and completes.
C19_OtherSessionCompletes ==
    <>(/\ turn[2].pc = "done"
       /\ turn[2].result # None
       /\ LastK(History(2), Len(turn[2].added)) = turn[2].added)

(***************************************************************************)
(* Tool registration (Tools.tool, Tools.load_plugins, gettools).           *)
(* A decorated function is named by the number of its registration; its    *)
(* tool_info carries the same number.                                      *)
(***************************************************************************)
MaxRegistrations == 4
MaxPlugins == 2

ToolRegNames == {"get_answer", "webdownloader"}

\* the decorator a plugin builds its tool with: ai_tool of the global
\* registry, or the tool method of a Tools instance of its own
Decorators == {"ai_tool", "own"}

PluginTools == [name : ToolRegNames, decorator : Decorators]

\* the decorated functions found in the plugins directory, in load order
PluginLists ==
    UNION { [1..n -> PluginTools] : n \in 0..MaxPlugins }

\* Tools.tool: the decorator binds the name to the new wrapper
tool(reg, name, fn) ==
    [reg EXCEPT !._tools = Put(@, name, fn),
                !._tool_functions = Put(@, name, fn)]

\* load_plugins for one attribute carrying tool_info: bound only when the
\* name is not in _tools yet
register_attr(reg, name, fn) ==
    IF name \notin DOMAIN reg._tools THEN tool(reg, name, fn) ELSE reg

\* load_plugins for one plugin tool: importing the module runs its
\* decorator, then the attribute scan finds the decorated function
load_plugin(reg, plugin, fn) ==
    LET imported_reg == IF plugin.decorator = "ai_tool"
                        THEN tool(reg, plugin.name, fn)
                        ELSE reg
    IN  register_attr(imported_reg, plugin.name, fn)

RECURSIVE load_plugins(_, _, _)
load_plugins(reg, plugins, base) ==
    IF plugins = << >> THEN reg
    ELSE load_plugins(load_plugin(reg, Head(plugins), base + 1),
                      Tail(plugins), base + 1)

Registration(name, fn, via) == [name |-> name, fn |-> fn, via |-> via]

InitRegistry ==
    /\ sessions = NoFunction
    /\ clock = 1
    /\ appended = << >>
    /\ truncated = FALSE
    /\ snapshot = None
    /\ original = None
    /\ imported = None
    /\ model_config = DefaultModel
    /\ RegQuiet
    /\ TurnQuiet
    /\ RouteQuiet
    /\ CmdQuiet
    /\ StreamQuiet
    /\ ToolRegQuiet
    /\ PromptQuiet

\* @ai_tool(name=...) on a function of an imported module
Decorate ==
    \E name \in ToolRegNames :
        /\ Len(registrations) < MaxRegistrations
        /\ registry' = tool(registry, name, Len(registrations) + 1)
        /\ registrations' = Append(registrations,
                                   Registration(name, Len(registrations) + 1,
                                                "decorator"))
        /\ UNCHANGED <<storeVars, regVars, turnVars, routeVars, cmdVars, stream,
                     promptVars>>

\* the first gettools(): load_plugins over the plugins directory
GetTools ==
    \E plugins \in PluginLists :
        /\ ~registry._plugins_loaded
        /\ Len(registrations) + Len(plugins) <= MaxRegistrations
        /\ registry' = [load_plugins(registry, plugins, Len(registrations))
                           EXCEPT !._plugins_loaded = TRUE]
        /\ registrations' = registrations \o
               [i \in 1..Len(plugins) |->
                   Registration(plugins[i].name, Len(registrations) + i,
                                "plugin " \o plugins[i].decorator)]
        /\ UNCHANGED <<storeVars, regVars, turnVars, routeVars, cmdVars, stream,
                     promptVars>>

NextRegistry ==
    \/ Decorate
    \/ GetTools

SpecRegistry == InitRegistry /\ [][NextRegistry]_vars

\* the first registration made under a name
FirstRegistration(name) ==
    registrations[CHOOSE i \in 1..Len(registrations) :
                     /\ registrations[i].name = name
                     /\ \A j \in 1..(i - 1) : registrations[j].name # name]

\* C20: the descriptor and the handler bound to a tool name are those of
\* the first registration of that name, after any sequence of decorator
\* registrations and plugin loading.
C20_FirstRegistrationWins ==
    \A name \in DOMAIN registry._tools :
        /\ registry._tools[name] = FirstRegistration(name).fn
        /\ registry._tool_functions[name] = FirstRegistration(name).fn

(***************************************************************************)
(* Outcomes of Tools.execute_tool (SpecQuotaSeq, SpecQuotaConc)            *)
(***************************************************************************)
\* C21: every finished execute_tool call returned a result to its caller:
\* none raised, whether the name was unregistered or the handler failed.
C21_ExecuteNeverRaises ==
    \A i \in 1..Len(calls) : calls[i].out.kind = "return"

\* a finished call that got as far as the wrapper of a registered tool
ReachedWrapper(r) == r.name \in DOMAIN TOOLS /\ ~Refused(r)

MissingRequired(r) == ~(TOOLS[r.name].required \subseteq r.kwargs)

ExtraOnly(r) ==
    /\ TOOLS[r.name].required \subseteq r.kwargs
    /\ ~(r.kwargs \subseteq TOOLS[r.name].parameters)

C23_ExtraParameterTolerated ==
    \A i \in 1..Len(calls) :
        (ReachedWrapper(calls[i]) /\ ExtraOnly(calls[i]))
            => /\ calls[i].invoked
               /\ calls[i].out.kind = "return"

(***************************************************************************)
(* Wildcard dispatch (TomatOS_Msghandler.on_message, handle_message)       *)
(***************************************************************************)
MaxHandlers == 2

\* the adapter, username and event_type of the events handled
EventAdapters == {"TomatOS_WebTerminal", "TomatOS_Console"}
EventUsers == {"alice", "bob"}
EventTypes == {"message"}

Events == [adapter : EventAdapters, username : EventUsers, event_type : EventTypes]

\* the filters a handler is registered with
HandlerFilters ==
    [from_adapter : EventAdapters \cup {"*"},
     from_user : EventUsers \cup {"*"},
     from_event : EventTypes \cup {"notice", "*"}]

\* mutant: the user filter is not looked at
HandlerMatchesAnyUser(handler, msg_dict) ==
    /\ handler.from_adapter \in {Get(msg_dict, "adapter", "unknown"), "*"}
    /\ handler.from_event \in {Get(msg_dict, "event_type", "unknown"), "*"}

\* handle_message, the condition of its loop
HandlerMatches(handler, msg_dict) ==
    /\ handler.from_adapter \in {Get(msg_dict, "adapter", "unknown"), "*"}
    /\ handler.from_user \in {Get(msg_dict, "username", "unknown"), "*"}
    /\ handler.from_event \in {Get(msg_dict, "event_type", "unknown"), "*"}

MatchingHandlers(msg_dict) ==
    { i \in 1..Len(message_handlers) : HandlerMatches(message_handlers[i], msg_dict) }

\* the handler the loop returns from: the first that matches
FirstHandler(msg_dict) ==
    CHOOSE i \in MatchingHandlers(msg_dict) :
        \A j \in MatchingHandlers(msg_dict) : i <= j

InitMsg ==
    /\ sessions = NoFunction
    /\ clock = 1
    /\ appended = << >>
    /\ truncated = FALSE
    /\ snapshot = None
    /\ original = None
    /\ imported = None
    /\ model_config = DefaultModel
    /\ RegQuiet
    /\ TurnQuiet
    /\ EdgeQuiet

\* TomatOS_Msghandler.on_message: the handler is appended to the list
OnMessage ==
    \E filters \in HandlerFilters :
        /\ Len(message_handlers) < MaxHandlers
        /\ handled = None
        /\ message_handlers' =
              Append(message_handlers,
                     [from_adapter |-> filters.from_adapter,
                      from_user |-> filters.from_user,
                      from_event |-> filters.from_event,
                      function |-> Len(message_handlers) + 1])
        /\ UNCHANGED <<storeVars, regVars, turnVars, routeVars, commands,
                       dispatched, handled, bot_instance, stream,
                       toolRegVars, promptVars>>

\* TomatOS_Msghandler.handle_message(message): the first handler whose
\* filters accept the event is awaited and its result returned
HandleMessage ==
    \E message \in Events :
        /\ handled = None
        /\ handled' =
              IF MatchingHandlers(message) = {}
              THEN Some([message |-> message, invoked |-> << >>, result |-> None])
              ELSE LET function == message_handlers[FirstHandler(message)].function
                   IN  Some([message |-> message, invoked |-> << function >>,
                             result |-> Some(HandlerResult(function))])
        /\ UNCHANGED <<storeVars, regVars, turnVars, routeVars, commands,
                       dispatched, message_handlers, bot_instance, stream,
                       toolRegVars, promptVars>>

NextMsg ==
    \/ OnMessage
    \/ HandleMessage

SpecMsg == InitMsg /\ [][NextMsg]_vars

\* filter f is '*' or equals the event's field
FilterAccepts(f, field) == f = "*" \/ f = field

Qualifies(h, m) ==
    /\ FilterAccepts(h.from_adapter, m.adapter)
    /\ FilterAccepts(h.from_user, m.username)
    /\ FilterAccepts(h.from_event, m.event_type)

\* C24: handle_message invokes a handler only if each of its three filters
\* is '*' or equals the event's field; of several qualifying handlers
\* exactly the first registered is invoked; when none qualifies no handler
\* is invoked and no reply is returned.
C24_WildcardDispatch ==
    handled # None =>
        LET d == handled[1]
            qualifying == { i \in 1..Len(message_handlers) :
                               Qualifies(message_handlers[i], d.message) }
        IN  IF qualifying = {}
            THEN d.invoked = << >> /\ d.result = None
            ELSE /\ Len(d.invoked) = 1
                 /\ \E i \in qualifying :
                       /\ message_handlers[i].function = d.invoked[1]
                       /\ \A j \in qualifying : i <= j
                 /\ d.result = Some(HandlerResult(d.invoked[1]))

\* C24 witness: the first handler's user filter rejected the event, the
\* second qualified through two wildcards and was invoked
C24_Witness ==
    /\ handled # None
    /\ Len(message_handlers) = 2
    /\ ~Qualifies(message_handlers[1], handled[1].message)
    /\ message_handlers[1].from_adapter = "*"
    /\ message_handlers[1].from_event = "*"
    /\ message_handlers[2].from_adapter = handled[1].message.adapter
    /\ message_handlers[2].from_user = "*"
    /\ message_handlers[2].from_event = "*"
    /\ handled[1].invoked = << 2 >>

(***************************************************************************)
(* Console input (TomatOS_bot.handle_console_input): find_and_execute,     *)
(* then handle_chat_message when it returned nothing.  The bot has not     *)
(* been started (bot_instance is None).                                    *)
(***************************************************************************)
\* the reply of handle_chat_message without a running bot (ASCII stand-in)
BOT_NOT_STARTED == "bot not started, use /bot_run start"

\* mutant: re.error is not caught
try_alias_uncaught(alias_str, message) ==
    IF InvalidRegex(alias_str) THEN "raise"
    ELSE IF full_pattern(alias_str, message) THEN "match"
    ELSE "continue"

\* find_and_execute, lines 141-148: the try block for one alias
try_alias(alias_str, message) ==
    IF InvalidRegex(alias_str) THEN "continue"
    ELSE IF full_pattern(alias_str, message) THEN "match"
    ELSE "continue"

\* the inner loop over the name and the aliases of one command: how it is
\* left
try_command(command, message) ==
    LET potential_matches == << command.name >> \o command.alias
        left == { k \in 1..Len(potential_matches) :
                     try_alias(potential_matches[k], message) # "continue" }
    IN  IF left = {} THEN "continue"
        ELSE try_alias(potential_matches[CHOOSE k \in left : \A l \in left : k <= l],
                       message)

\* find_and_execute as a whole: the command it calls, an exception that
\* leaves it, or None
find_and_execute(message) ==
    LET left == { c \in 1..Len(commands) :
                     try_command(commands[c], message) # "continue" }
        first == CHOOSE c \in left : \A d \in left : c <= d
    IN  IF left = {} THEN [kind |-> "none", command |-> 0]
        ELSE [kind |-> try_command(commands[first], message), command |-> first]

\* the message dict handle_console_input builds for chat handling
ConsoleMessage(cmd) ==
    [adapter |-> "TomatOS_Console", text |-> cmd, userid |-> "developer",
     conversation_id |-> "console_chat", is_group |-> FALSE]

\* the session handle_chat_message fetches or creates for a message, with
\* the user message chat() adds to it
ChatSessionFor(message, by) ==
    LET \* str() of a user id that is a str already is that id
        bot_msg == [BotMsg(message) EXCEPT !.user_id = message.userid]
        session_id == generate_session_id(bot_msg)
        exists == session_id \in DOMAIN sessions
        base == IF exists THEN sessions[session_id]
                ELSE create_session(session_id, "custom prompt")
    IN  [session_id |-> session_id,
         ticks |-> IF exists THEN 1 ELSE 4,
         session |-> add_message(base, PlainMessage("user", "console input", by),
                                 At(clock + (IF exists THEN 0 ELSE 3)))]

\* handle_console_input(cmd) for a non-empty cmd: a truthy result of
\* find_and_execute is returned, anything else sends the input on to
\* handle_chat_message, which answers BOT_NOT_STARTED without a running bot
\* and otherwise starts a chat turn on the console session
HandleConsoleInput ==
    \E cmd \in Messages \ {<< >>} :
        /\ dispatched = None
        /\ LET found == find_and_execute(cmd)
               res == IF found.kind = "match" THEN Returns(commands[found.command])
                      ELSE None
               chat == found.kind # "raise" /\ res = None
               turn_on == ChatSessionFor(ConsoleMessage(cmd), 1)
           IN  /\ dispatched' =
                     Some([message |-> cmd,
                           invoked |-> IF found.kind = "match"
                                       THEN << commands[found.command].function >>
                                       ELSE << >>,
                           passed |-> IF found.kind = "match" THEN Some(cmd) ELSE None,
                           result |-> IF ~chat THEN res
                                      ELSE IF bot_instance THEN Some("reply of the chat turn")
                                      ELSE Some(BOT_NOT_STARTED),
                           raised |-> found.kind = "raise",
                           chat |-> chat])
               /\ sessions' = IF chat /\ bot_instance
                              THEN Put(sessions, turn_on.session_id, turn_on.session)
                              ELSE sessions
               /\ clock' = IF chat /\ bot_instance THEN clock + turn_on.ticks ELSE clock
        /\ UNCHANGED <<appended, truncated, snapshot, original, imported,
                       model_config, regVars, turnVars, routeVars, commands,
                       message_handlers, handled, bot_instance, stream,
                       toolRegVars, promptVars>>

NextConsole ==
    \/ OnCommand
    \/ HandleConsoleInput

SpecConsole == InitCmd /\ [][NextConsole]_vars

HasInvalidAlias(command) ==
    \E k \in 1..Len(command.alias) : InvalidRegex(command.alias[k])

\* C25: an alias that is no valid regular expression never aborts routing:
\* no exception leaves find_and_execute, a command is still reached through
\* its name or a valid alias tried after the invalid one and so are the
\* commands after it, and when nothing answers to the input no command is
\* invoked and the input goes on to chat handling.
C25_InvalidAliasSkipped ==
    dispatched # None =>
        LET d == dispatched[1]
            answering == {c \in 1..Len(commands) : Answers(c, d.message)}
        IN  /\ ~d.raised
            /\ answering # {} =>
                  d.invoked = << CHOOSE c \in answering : \A e \in answering : c <= e >>
            /\ answering = {} =>
                  /\ d.invoked = << >>
                  /\ d.chat

\* C25 witness: the first command has an invalid alias before its valid
\* alias hi, and "/hi" reached it through that alias
C25_Witness ==
    /\ dispatched # None
    /\ Len(commands) >= 1
    /\ HasInvalidAlias(commands[1])
    /\ commands[1].name = <<"i", "h">>
    /\ dispatched[1].message = <<"/", "h", "i">>
    /\ dispatched[1].invoked = << 1 >>
    /\ ~dispatched[1].chat

(***************************************************************************)
(* System messages under truncation (SpecTrunc)                            *)
(***************************************************************************)
\* C28: every system message ever appended is still in the session, also
\* when the cap is smaller than or equal to the number of system messages.
C28_SystemMessagesKept ==
    \A i \in 1..Len(SysAppended) :
        \E j \in 1..Len(sessions["s1"].messages) :
            sessions["s1"].messages[j] = SysAppended[i]

\* C28 witness: add_message has just truncated a session whose cap is not
\* larger than its number of system messages, after user messages were
\* appended too
C28_Witness ==
    /\ truncated
    /\ CountS >= CapC
    /\ CountS >= 2
    /\ CountN >= 1

(***************************************************************************)
(* Engine construction and prompt assembly: AIChat.__init__ binds the      *)
(* engine's model, chat() adds the user message and _chat_complete builds  *)
(* the messages it sends to the provider, through PromptManager when tools *)
(* are available and the session's model supports tool calls.              *)
(* A text is a sequence of pieces: a piece is literal text or, in a        *)
(* template, a {field} that str.format replaces.                           *)
(***************************************************************************)
MaxPromptMsgs == 13  \* messages of the session a chat call of SpecPrompt adds to

\* conversation_history[-10:]
HistoryWindow == 10

bot_name == "miaoning"
bot_alliases == <<"good miaoning">>

Lit(x) == [field |-> FALSE, v |-> x]
Field(x) == [field |-> TRUE, v |-> x]
Sep == Lit("\n\n")
Nl == Lit("\n")

\* api.PROMPT_TEMPLATES: "default" is an f-string, its only braces were
\* filled with bot_name when the module was imported; every template starts
\* and ends with a newline
PROMPT_TEMPLATES ==
    [t \in {"default", "io", "tool_calling"} |->
        CASE t = "default" -> << Nl, Lit("persona of " \o bot_name), Nl >>
          [] t = "io" -> << Nl, Lit("input and output rules"), Nl >>
          [] t = "tool_calling" ->
               << Nl, Lit("how to call a tool:"), Field("tool_calling_format"),
                  Lit("rules of a tool call; the available tools:"),
                  Field("available_tools_list"), Lit("file upload"), Nl >>]

Placeholders(template) ==
    {template[i].v : i \in {j \in 1..Len(template) : template[j].field}}

\* str.format(**kwargs) on a template all of whose fields are in kwargs:
\* fields are replaced, every other keyword is ignored
RECURSIVE format(_, _)
format(template, kwargs) ==
    IF template = << >> THEN << >>
    ELSE (IF Head(template).field THEN kwargs[Head(template).v]
          ELSE << Head(template) >>) \o format(Tail(template), kwargs)

\* PromptManager.get_prompt: a KeyError of format returns the raw template
\* mutant: a type that is not in the templates yields no text
get_prompt_no_fallback(prompt_type, kwargs) ==
    IF prompt_type \notin DOMAIN PROMPT_TEMPLATES THEN << >>
    ELSE IF Placeholders(PROMPT_TEMPLATES[prompt_type]) \subseteq DOMAIN kwargs
         THEN format(PROMPT_TEMPLATES[prompt_type], kwargs)
         ELSE PROMPT_TEMPLATES[prompt_type]

get_prompt(prompt_type, kwargs) ==
    LET type == IF prompt_type \notin DOMAIN PROMPT_TEMPLATES
                THEN "default" ELSE prompt_type
        template == PROMPT_TEMPLATES[type]
    IN  IF Placeholders(template) \subseteq DOMAIN kwargs
        THEN format(template, kwargs) ELSE template

RECURSIVE SeqOfSet(_)
SeqOfSet(S) ==
    IF S = {} THEN << >>
    ELSE LET x == CHOOSE y \in S : TRUE IN << x >> \o SeqOfSet(S \ {x})

\* the tool_info["function"] that Tools.tool builds for a registered tool
Schema(name) ==
    [name |-> name, description |-> "what " \o name \o " does",
     properties |-> SeqOfSet(TOOLS[name].parameters),
     required |-> TOOLS[name].required]

ParamLine(schema, i) ==
    Lit("  - " \o schema.properties[i] \o
        (IF schema.properties[i] \in schema.required
         THEN " (required)" ELSE " (optional)"))

\* one tool_entry of _build_tools_list
ToolEntry(schema) ==
    << Lit("- **" \o schema.name \o "**: " \o schema.description),
       Lit("parameters:") >> \o
    [i \in 1..Len(schema.properties) |-> ParamLine(schema, i)]

RECURSIVE JoinEntries(_)
JoinEntries(tools) ==
    IF Len(tools) = 1 THEN ToolEntry(tools[1])
    ELSE ToolEntry(Head(tools)) \o << Sep >> \o JoinEntries(Tail(tools))

\* PromptManager._build_tools_list
_build_tools_list(tools) ==
    IF tools = << >> THEN << Lit("no tools available") >> ELSE JoinEntries(tools)

tool_calling_format == << Lit("--- tool_call --- ... --- end_tool_call ---") >>

\* str.strip() of a text: the blank pieces at both ends are removed
RECURSIVE strip(_)
strip(text) ==
    IF text = << >> THEN text
    ELSE IF Head(text) \in {Nl, Sep} THEN strip(Tail(text))
    ELSE IF text[Len(text)] \in {Nl, Sep} THEN strip(SubSeq(text, 1, Len(text) - 1))
    ELSE text

\* PromptManager.build_system_prompt; `tools` is None when the caller does
\* not pass it
build_system_prompt(base_prompt_type, include_io_format, include_tools, tools, kwargs) ==
    LET base == get_prompt(base_prompt_type, kwargs)
        withio == IF include_io_format
                  THEN base \o << Sep >> \o get_prompt("io", kwargs) ELSE base
        toolkw == [k \in DOMAIN kwargs \cup {"tool_calling_format", "available_tools_list"} |->
                     CASE k = "tool_calling_format" -> tool_calling_format
                       [] k = "available_tools_list" -> _build_tools_list(tools[1])
                       [] OTHER -> kwargs[k]]
    IN  strip(IF include_tools /\ TruthyList(tools)
              THEN withio \o << Sep >> \o get_prompt("tool_calling", toolkw)
              ELSE withio)

\* the value select_prompt_strategy puts under kwargs["mention_handling"]
MentionClause ==
    Lit("reply when the user writes @" \o bot_name \o " or mentions " \o bot_alliases[1])

\* PromptManager.select_prompt_strategy: build_system_prompt is called
\* without `tools`; the third parameter is the catalogue create_dynamic_prompt
\* holds at the call, which the code does not hand on
select_prompt_strategy(has_tools, is_group_chat, tools) ==
    build_system_prompt("default", FALSE, has_tools, None,
        IF is_group_chat
        THEN [k \in {"group_chat", "mention_handling"} |->
                 IF k = "group_chat" THEN << Lit("True") >> ELSE << MentionClause >>]
        ELSE NoFunction)

Dict(role, content) == [role |-> role, content |-> content]

\* mutant: the whole history is sent
create_dynamic_prompt_unwindowed(user_message, conversation_history, available_tools, is_group_chat) ==
    << Dict("system", select_prompt_strategy(Len(available_tools) > 0,
                                             is_group_chat, available_tools)) >>
    \o conversation_history
    \o << Dict("user", user_message) >>

\* PromptManager.create_dynamic_prompt: the "messages" of its result
create_dynamic_prompt(user_message, conversation_history, available_tools, is_group_chat) ==
    << Dict("system", select_prompt_strategy(Len(available_tools) > 0,
                                             is_group_chat, available_tools)) >>
    \o PySliceFrom(conversation_history, -HistoryWindow)
    \o << Dict("user", user_message) >>

\* the model_name arguments AIChat is constructed with
ModelNameArgs ==
    {None, Some(""), Some("deepseek-reasoner"), Some("llama3.1"),
     Some("no-such-model")}

\* mutant: an unknown name is bound as it was looked up
AIChatInitNoFallback(model_name) ==
    IF TruthyStr(model_name) THEN GetModelConfig(model_name[1]) ELSE DefaultModel

\* AIChat.__init__, lines 108-118: the model_config the engine binds (with
\* the default present in the catalogue the ValueError is never raised)
AIChatInit(model_name) ==
    IF TruthyStr(model_name)
    THEN IF GetModelConfig(model_name[1]) # None
         THEN GetModelConfig(model_name[1]) ELSE DefaultModel
    ELSE DefaultModel

\* what tools_manager.get_tools() returns to chat(): [] with tools disabled
PromptCatalogues ==
    { << >>, << Schema("search_web") >>,
      << Schema("get_answer"), Schema("webdownloader") >> }

InitPrompt ==
    /\ requested_model \in ModelNameArgs
    /\ model_config = AIChatInit(requested_model)
    /\ request = None
    /\ config = ShippedConfig
    /\ attempts = << >>
    /\ sessions = [s \in {} |-> 0]
    /\ clock = 1
    /\ appended = << >>
    /\ truncated = FALSE
    /\ snapshot = None
    /\ original = None
    /\ imported = None
    /\ RegQuiet
    /\ TurnQuiet
    /\ RouteQuiet
    /\ CmdQuiet
    /\ StreamQuiet
    /\ ToolRegQuiet

\* one entry of the history of calls: the operation, its argument, its outcome
Attempt(op, arg, out) == [op |-> op, arg |-> arg, out |-> out]

CustomPrompt == << Lit("custom prompt") >>

\* create_session, lines 219-236: the content of the system message; the
\* synchronous _get_available_tools() gives no tools, so include_tools is
\* passed as False; is_group_chat travels on in kwargs
SystemPromptOf(system_prompt, prompt_type, is_group_chat) ==
    IF system_prompt # << >> THEN system_prompt
    ELSE build_system_prompt(prompt_type, FALSE, FALSE, Some(<< >>),
             [k \in {"is_group_chat"} |->
                 << Lit(IF is_group_chat THEN "True" ELSE "False") >>])

\* create_session: the session it stores, bound to the engine's model
NewPromptSession(session_id, content) ==
    [add_message(ChatSession(session_id, DefaultMaxHistory, Now),
                 PlainMessage("system", content, 0), Now)
        EXCEPT !.model_config = model_config]

\* the arguments create_session is called with: each template type and a
\* type that does not exist, a caller's own prompt, and the raw default
\* template handle_chat_message passes
PromptSessionArgs ==
    [system_prompt : {<< >>},
     prompt_type : DOMAIN PROMPT_TEMPLATES \cup {"no_such_type"}]
    \cup [system_prompt : {CustomPrompt, PROMPT_TEMPLATES["default"]},
          prompt_type : {"default"}]

IsConversation(d) == d.role \in {"user", "assistant", "tool"}
IsUser(d) == d.role = "user"

\* history_msg of _chat_complete, lines 339-348
HistoryMsg(d) ==
    [role |-> d.role, content |-> d.content,
     tool_call_id |-> IF d.role = "tool" THEN d.tool_call_id ELSE None,
     tool_calls |-> IF d.role = "assistant" THEN d.tool_calls ELSE None]

\* _chat_complete, lines 330-381, and _call_openai_api, lines 439-450: the
\* provider call.  messages is chosen by the session's model, while "model"
\* and "tools" of the call are read from the engine's model_config; the
\* result dict names the session's model
ModelParams(session, tools, is_group_chat, followup) ==
    LET messages == MapSeq(to_dict, session.messages)
        dynamic == tools # << >> /\ session.model_config[1].tool_usable
        conversation_history == MapSeq(HistoryMsg, SelectSeq(messages, IsConversation))
        users == SelectSeq(messages, IsUser)
        user_message == IF users = << >> THEN "" ELSE users[Len(users)].content
    IN  [messages |-> IF dynamic
                      THEN create_dynamic_prompt(user_message, conversation_history,
                                                 tools, is_group_chat)
                      ELSE messages,
         catalogue |-> tools,
         dynamic |-> dynamic,
         model |-> model_config[1].model_name,
         tools |-> IF tools # << >> /\ model_config[1].tool_usable
                   THEN Some(tools) ELSE None,
         result_model |-> session.model_config[1].model_name,
         is_group_chat |-> is_group_chat,
         followup |-> followup,
         history |-> Len(session.messages),
         answered |-> FALSE]

PromptFrame == <<clock, appended, truncated, snapshot, original, imported,
                 model_config, regVars, turnVars, routeVars, cmdVars, stream,
                 toolRegVars, requested_model, config>>

BetweenTurns == IF request = None THEN TRUE ELSE request[1].answered

\* create_session(session_id, system_prompt, prompt_type) by a caller that,
\* like handle_chat_message, creates the session it does not find
CreateSessionWithPrompt ==
    \E args \in PromptSessionArgs :
        LET content == SystemPromptOf(args.system_prompt, args.prompt_type, FALSE)
        IN  /\ "s1" \notin DOMAIN sessions
            /\ sessions' = Put(sessions, "s1", NewPromptSession("s1", content))
            /\ attempts' = Append(attempts,
                                  Attempt("create_session", args, Returned(content)))
            /\ UNCHANGED <<PromptFrame, request>>

\* switch_model(model_name, session_id) for a stored session
SwitchSessionModel ==
    \E name \in DOMAIN MODEL_CONFIGS \cup {"no-such-model"} :
        /\ BetweenTurns
        /\ "s1" \in DOMAIN sessions
        /\ sessions' = IF GetModelConfig(name) = None THEN sessions
                       ELSE [sessions EXCEPT !["s1"].model_config = GetModelConfig(name)]
        /\ UNCHANGED <<PromptFrame, request, attempts>>

\* chat(session_id, user_message, is_group_chat=...) up to the provider call:
\* the session is fetched or created, the user message is added and
\* _chat_complete builds the request (timestamps are not read on this path)
ChatSend ==
    \E tools \in PromptCatalogues, is_group_chat \in BOOLEAN :
        LET found == IF "s1" \in DOMAIN sessions THEN sessions["s1"]
                     ELSE NewPromptSession("s1", SystemPromptOf(<< >>, "default", FALSE))
            user_msg == PlainMessage("user", UserText(Len(found.messages)), 0)
            session == add_message(found, user_msg, Now)
        IN  /\ BetweenTurns
            /\ Len(found.messages) + 2 <= MaxPromptMsgs
            /\ sessions' = Put(sessions, "s1", session)
            /\ request' = Some(ModelParams(session, tools, is_group_chat, FALSE))
            /\ UNCHANGED <<PromptFrame, attempts>>

\* _chat_complete, lines 396-410: a response without tool calls is added to
\* the session as the assistant message
ChatReceive ==
    /\ request # None
    /\ ~request[1].answered
    /\ Len(sessions["s1"].messages) + 1 <= MaxPromptMsgs
    /\ sessions' = [sessions EXCEPT
           !["s1"] = add_message(@, PlainMessage("assistant", "hello", 0), Now)]
    /\ request' = Some([request[1] EXCEPT !.answered = TRUE])
    /\ UNCHANGED <<PromptFrame, attempts>>

\* _handle_tool_calls for a response of k tool calls, sent only to a call
\* that carried tools: the assistant message and the tool messages are
\* added, and _chat_complete builds the next request from the session
ChatToolRound ==
    \E k \in {1, 2} :
        LET n == Len(sessions["s1"].messages)
            tool_calls == ResponseToolCalls(n, k, 1)
            msgs == << ChatMessage("assistant", "", None, Some(tool_calls), None, 0) >>
                    \o [i \in 1..k |->
                          ChatMessage("tool", "\"114514\"",
                                      Some(tool_calls[i].function.name), None,
                                      Some(tool_calls[i].id), 0)]
            session == AddSeq(sessions["s1"], msgs, clock)
        IN  /\ request # None
            /\ ~request[1].answered
            /\ request[1].tools # None
            /\ n + 1 + k <= MaxPromptMsgs
            /\ sessions' = [sessions EXCEPT !["s1"] = session]
            /\ request' = Some(ModelParams(session, request[1].catalogue,
                                           request[1].is_group_chat, TRUE))
            /\ UNCHANGED <<PromptFrame, attempts>>

NextPrompt ==
    \/ CreateSessionWithPrompt
    \/ SwitchSessionModel
    \/ ChatSend
    \/ ChatReceive
    \/ ChatToolRound

SpecPrompt == InitPrompt /\ [][NextPrompt]_vars

UnknownType(a) ==
    /\ a.op = "create_session"
    /\ a.arg.system_prompt = << >>
    /\ a.arg.prompt_type \notin DOMAIN PROMPT_TEMPLATES

\* C32: a session created with a template type that is not among the
\* templates is created all the same: the call returns, the prompt built for
\* it is the text of the default template, and that text is the content of
\* the system message the session starts with.
C32_UnknownTypeFallsBack ==
    \A i \in 1..Len(attempts) :
        UnknownType(attempts[i]) =>
            /\ attempts[i].out = Returned(strip(PROMPT_TEMPLATES["default"]))
            /\ "s1" \in DOMAIN sessions
            /\ sessions["s1"].messages[1].role = "system"
            /\ sessions["s1"].messages[1].content = strip(PROMPT_TEMPLATES["default"])

\* C32 witness: a session was created with the type "no_such_type" and a
\* chat call on it has been answered
C32_Witness ==
    /\ \E i \in 1..Len(attempts) :
           UnknownType(attempts[i]) /\ attempts[i].arg.prompt_type = "no_such_type"
    /\ request # None
    /\ request[1].answered

\* C34: every provider call is made with the model bound to the session of
\* the turn: the model of the call is the session's model, which is also the
\* model the result names, and the tool catalogue is sent exactly when it is
\* not empty and the session's model supports tool calls.
C34_CallUsesSessionModel ==
    request # None =>
        /\ request[1].model = request[1].result_model
        /\ request[1].tools # None <=>
               /\ request[1].catalogue # << >>
               /\ MODEL_CONFIGS[request[1].result_model].tool_usable

\* the message at position j of a list carries the tool call named id
CarriesCall(messages, j, id) ==
    /\ messages[j].role = "assistant"
    /\ messages[j].tool_calls # None
    /\ \E c \in 1..Len(messages[j].tool_calls[1]) :
           messages[j].tool_calls[1][c].id = id

\* C37: in every message list sent to the provider, each tool message is
\* preceded in the list by the assistant message that carries the tool call
\* with the id the tool message answers.
C37_ToolResultAfterItsCall ==
    request # None =>
        \A i \in 1..Len(request[1].messages) :
            request[1].messages[i].role = "tool" =>
                \E j \in 1..(i - 1) :
                    CarriesCall(request[1].messages, j,
                                request[1].messages[i].tool_call_id[1])

\* the content of the user message of the turn the request belongs to: the
\* last user message of the session
TurnUserMessage ==
    LET users == SelectSeq(sessions["s1"].messages, IsUser)
    IN  users[Len(users)].content

\* C38: in every message list sent to the provider the user message of the
\* turn appears exactly once, and a list sent after tool results were added
\* ends with a tool result.
C38_UserMessageOnce ==
    request # None =>
        LET messages == request[1].messages
        IN  /\ Cardinality({i \in 1..Len(messages) :
                               /\ messages[i].role = "user"
                               /\ messages[i].content = TurnUserMessage}) = 1
            /\ request[1].followup => messages[Len(messages)].role = "tool"

\* C40: the system message of every message list sent to the provider is
\* the system message the session was created with.
C40_SessionPromptSent ==
    request # None =>
        /\ request[1].messages[1].role = "system"
        /\ request[1].messages[1].content = sessions["s1"].messages[1].content

\* C30: a model name that is not in the catalogue is looked up as absent,
\* and an engine constructed with such a name is bound to the default chat
\* model of the catalogue.
C30_UnknownModelFallsBack ==
    (TruthyStr(requested_model) /\ requested_model[1] \notin DOMAIN MODEL_CONFIGS)
        => /\ GetModelConfig(requested_model[1]) = None
           /\ model_config = DefaultModel
           /\ model_config # None

\* C30: an engine constructed with an unknown name has built a request
C30_Witness ==
    /\ requested_model = Some("no-such-model")
    /\ model_config = GetModelConfig("deepseek-reasoner")
    /\ request # None

Pieces(text) == {text[i] : i \in 1..Len(text)}

\* the content of the system message of the request built last
SystemContent == request[1].messages[1].content

\* the request built last went through create_dynamic_prompt: tools are
\* enabled, the catalogue is non-empty and the session's model supports
\* tool calls
Dynamic == request # None /\ request[1].dynamic

\* C26: whenever the catalogue is non-empty and the session's model supports
\* tool calls, the system message sent to the provider contains the rendered
\* catalogue (every tool's entry and parameter lines) and the tool-invocation
\* format block.
C26_ToolCatalogueInSystemMessage ==
    Dynamic =>
        /\ request[1].messages[1].role = "system"
        /\ Pieces(_build_tools_list(request[1].catalogue)) \subseteq Pieces(SystemContent)
        /\ Pieces(tool_calling_format) \subseteq Pieces(SystemContent)

\* C27: a request built with tools for a tool-capable model holds at most the
\* system message, the last HistoryWindow history entries and the current
\* user message, however long the session's history is.
C27_RequestBounded ==
    Dynamic => Len(request[1].messages) <= 1 + HistoryWindow + 1

\* C27: a request built from a history longer than the window is cut to it
C27_Witness ==
    /\ Dynamic
    /\ request[1].history > 1 + HistoryWindow
    /\ sessions["s1"].max_history > request[1].history
    /\ Len(request[1].messages) = 1 + HistoryWindow + 1

\* C29: the system prompt built in group-chat mode contains the
\* mention-handling clause with the bot's name and aliases, and the one built
\* in non-group mode does not.
C29_GroupPromptHasMentionClause ==
    Dynamic => (request[1].is_group_chat <=> MentionClause \in Pieces(SystemContent))

(***************************************************************************)
(* Configuration errors: the engine (AIChat.__init__) and the model        *)
(* manager (model.chat_completion) on a configuration whose catalogue may  *)
(* lack the default chat model.                                            *)
(***************************************************************************)
MaxAttempts == 2     \* constructions and completions per behaviour of SpecConfig

\* the configurations of api.py: which of the chat models MODEL_CONFIGS
\* holds, and what DEFAULT_MODELS["chat"] names ("" when it is left empty)
Configs ==
    [models : SUBSET (DOMAIN MODEL_CONFIGS),
     chat : {"deepseek-reasoner", "no-such-model", ""}]

\* AIChat._get_model_config and model.get_model_config on a configuration
LookupIn(cfg, model_name) ==
    IF model_name \in cfg.models THEN Some(MODEL_CONFIGS[model_name]) ELSE None

\* AIChat._get_default_model: the lookup of DEFAULT_MODELS["chat"]
DefaultIn(cfg) == LookupIn(cfg, cfg.chat)

\* model.get_default_model("chat"): an empty name is not looked up
get_default_model(cfg) == IF cfg.chat # "" THEN LookupIn(cfg, cfg.chat) ELSE None

\* MODEL_CONFIGS[name]["provider"]
ProviderOf(name) == IF name = "llama3.1" THEN "local" ELSE "deepseek"

Called(profile) == [kind |-> "call", v |-> profile]

\* mutant: the engine is constructed with whatever the lookups gave
AIChatConstructUnchecked(cfg, model_name) ==
    Called(IF TruthyStr(model_name) /\ LookupIn(cfg, model_name[1]) # None
           THEN LookupIn(cfg, model_name[1]) ELSE DefaultIn(cfg))

\* AIChat.__init__, lines 108-125: the ValueError, or the profile the
\* provider client is created for
AIChatConstruct(cfg, model_name) ==
    LET bound == IF TruthyStr(model_name) /\ LookupIn(cfg, model_name[1]) # None
                 THEN LookupIn(cfg, model_name[1]) ELSE DefaultIn(cfg)
    IN  IF bound = None THEN Raised("no chat model configuration found")
        ELSE Called(bound)

\* model.chat_completion, lines 466-495: the ValueError, or the profile the
\* provider request is sent with
chat_completion(cfg, model_name) ==
    LET found == IF model_name = None THEN get_default_model(cfg)
                 ELSE LookupIn(cfg, model_name[1])
    IN  IF found = None THEN Raised("model configuration not found")
        ELSE IF ProviderOf(found[1].model_name) \in {"deepseek", "siliconflow", "local"}
             THEN Called(found)
             ELSE Raised("unsupported provider")

InitConfig ==
    /\ config \in Configs
    /\ attempts = << >>
    /\ requested_model = None
    /\ request = None
    /\ sessions = [s \in {} |-> 0]
    /\ clock = 1
    /\ appended = << >>
    /\ truncated = FALSE
    /\ snapshot = None
    /\ original = None
    /\ imported = None
    /\ model_config = None
    /\ RegQuiet
    /\ TurnQuiet
    /\ RouteQuiet
    /\ CmdQuiet
    /\ StreamQuiet
    /\ ToolRegQuiet

ConfigFrame == <<sessions, clock, appended, truncated, snapshot, original,
                 imported, regVars, turnVars, routeVars, cmdVars, stream,
                 toolRegVars, request, config>>

\* AIChat(model_name): the engine exists only if __init__ did not raise
Construct ==
    \E model_name \in ModelNameArgs :
        LET out == AIChatConstruct(config, model_name)
        IN  /\ Len(attempts) < MaxAttempts
            /\ attempts' = Append(attempts, Attempt("AIChat", model_name, out))
            /\ requested_model' = model_name
            /\ model_config' = IF out.kind = "call" THEN out.v ELSE model_config
            /\ UNCHANGED ConfigFrame

\* model.chat_completion(messages, model_name)
ChatCompletion ==
    \E model_name \in ModelNameArgs \ {Some("")} :
        /\ Len(attempts) < MaxAttempts
        /\ attempts' = Append(attempts,
               Attempt("chat_completion", model_name, chat_completion(config, model_name)))
        /\ UNCHANGED <<ConfigFrame, requested_model, model_config>>

NextConfig ==
    \/ Construct
    \/ ChatCompletion

SpecConfig == InitConfig /\ [][NextConfig]_vars

\* the attempt a asked for the default chat model or, in the engine, fell
\* back to it
NeedsDefault(a) ==
    IF a.op = "AIChat"
    THEN ~TruthyStr(a.arg) \/ LookupIn(config, a.arg[1]) = None
    ELSE a.arg = None

\* C31: with no usable profile configured for chat, constructing the engine
\* and chat_completion raise, and no provider call is made with an absent
\* profile.
C31_NoCallWithoutProfile ==
    \A i \in 1..Len(attempts) :
        /\ (NeedsDefault(attempts[i]) /\ DefaultIn(config) = None)
               => attempts[i].out.kind = "raise"
        /\ attempts[i].out.kind = "call" => attempts[i].out.v # None

\* C31: both operations were tried on a configuration without a default
\* chat profile, and both raised
C31_Witness ==
    /\ DefaultIn(config) = None
    /\ Len(attempts) = 2
    /\ attempts[1] = Attempt("AIChat", None, Raised("no chat model configuration found"))
    /\ attempts[2] = Attempt("chat_completion", None, Raised("model configuration not found"))

(***************************************************************************)
(* Session store: the model bound to stored sessions.                      *)
(***************************************************************************)
\* C35: every session in the store has a bound model profile, whatever the
\* sequence of create_session, import_session, switch_model and
\* delete_session calls and of messages added by chat.
C35_StoredSessionsBound ==
    \A sid \in DOMAIN sessions : sessions[sid].model_config # None

(***************************************************************************)
(* Command dispatch: what the handler is called with (SpecCmd), and what   *)
(* becomes of the input after a command answered to it (console input with *)
(* a running bot).                                                         *)
(***************************************************************************)
\* str.strip() of a sequence of characters
RECURSIVE lstrip(_)
lstrip(seq) ==
    IF seq # << >> /\ Head(seq) \in Whitespace THEN lstrip(Tail(seq)) ELSE seq

RECURSIVE rstrip(_)
rstrip(seq) ==
    IF seq # << >> /\ seq[Len(seq)] \in Whitespace
    THEN rstrip(SubSeq(seq, 1, Len(seq) - 1)) ELSE seq

\* the message with its prefix character and the command word removed
ArgText(message, word) ==
    rstrip(lstrip(SubSeq(message, 2 + Len(word), Len(message))))

\* the name or alias through which find_and_execute matched the command
MatchedWord(command, message) ==
    LET potential_matches == << command.name >> \o command.alias
        hits == { k \in 1..Len(potential_matches) :
                     try_alias(potential_matches[k], message) = "match" }
    IN  potential_matches[CHOOSE k \in hits : \A l \in hits : k <= l]

\* C33: the handler of the matched command is called with the argument
\* text: the message without the prefix and the command name.
C33_HandlerGetsArgText ==
    (dispatched # None /\ dispatched[1].invoked # << >>) =>
        LET d == dispatched[1]
        IN  d.passed = Some(ArgText(d.message,
                                    MatchedWord(commands[d.invoked[1]], d.message)))

\* the console of a bot that /bot_run start has started
InitRunning ==
    /\ sessions = NoFunction
    /\ clock = 1
    /\ appended = << >>
    /\ truncated = FALSE
    /\ snapshot = None
    /\ original = None
    /\ imported = None
    /\ model_config = DefaultModel
    /\ RegQuiet
    /\ TurnQuiet
    /\ RouteQuiet
    /\ commands = << >>
    /\ dispatched = None
    /\ message_handlers = << >>
    /\ handled = << >>
    /\ bot_instance = TRUE
    /\ StreamQuiet
    /\ ToolRegQuiet
    /\ PromptQuiet

SpecConsoleRunning == InitRunning /\ [][NextConsole]_vars

\* C36: a message that a registered command answers to is handled by that
\* command only: it is not handed on to chat handling and no session is
\* created or modified for it, whatever the handler returned.
C36_CommandOnly ==
    dispatched # None =>
        LET d == dispatched[1]
        IN  (\E c \in 1..Len(commands) : Answers(c, d.message)) =>
               /\ d.invoked # << >>
               /\ ~d.chat
               /\ sessions = NoFunction

(***************************************************************************)
(* The iteration bound of the tool loop (SpecTurn)                         *)
(***************************************************************************)
IsToolCallMsg(m) == m.role = "assistant" /\ m.tool_calls # None

\* C39: the bound is checked after the tool calls of a response have run
\* and their tool messages are appended: a turn that ends on the bound has
\* run the tools of max_tool_iterations+1 responses, its session ends with
\* the last assistant tool-call message and its tool results, and no
\* message holds the limit text.
C39_BoundCheckedAfterTools ==
    \A t \in Turns :
        (turn[t].pc = "done" /\ turn[t].result = Some(LimitResult)) =>
            LET fr == turn[t]
                a == fr.added
                n == Len(fr.tool_calls)
                h == History(t)
            IN  /\ Len(SelectSeq(a, IsToolCallMsg)) = max_tool_iterations + 1
                /\ \A i \in 1..Len(a) :
                      IsToolCallMsg(a[i]) =>
                         \A k \in 1..Len(a[i].tool_calls[1]) :
                            /\ i + k <= Len(a)
                            /\ a[i + k].role = "tool"
                            /\ a[i + k].tool_call_id = Some(a[i].tool_calls[1][k].id)
                /\ n >= 1
                /\ Len(fr.executed) = n
                /\ a[Len(a) - n].tool_calls = Some(fr.tool_calls)
                /\ \A k \in 1..n : a[Len(a) - n + k] = ToolMessage(fr.tool_results[k], t)
                /\ SubSeq(h, Len(h) - n, Len(h)) = SubSeq(a, Len(a) - n, Len(a))
                /\ \A i \in 1..Len(h) : h[i].content # LIMIT_REACHED

\* C39 witness: a turn with the largest bound has ended on it after a
\* response of two tool calls
C39_Witness ==
    /\ max_tool_iterations = MaxToolIterations
    /\ turn[1].pc = "done"
    /\ turn[1].result = Some(LimitResult)
    /\ Len(turn[1].tool_calls) = 2
    /\ Len(turn[1].executed) = 2
    /\ History(1)[Len(History(1))].role = "tool"

====
